---- MODULE Spec2Model ----
(***************************************************************************)
(* Model of the self-update / installer subsystem of Mod-Manager:          *)
(*   src/update.py                 InstallerUpdater (current updater)      *)
(*   src/modmanager.py             update check, updater launch, swap      *)
(*   src/old_updater/1.1/update.py UpdaterGUI tasks, atomic_replace,       *)
(*                                 unzip_to, deferred-replacement script   *)
(*   src/old_updater/1.2/update.py unzip_and_merge                         *)
(*   src/old_versions/1.0.3/modmanager.py  compare_versions                *)
(*                                                                         *)
(* Specifications:                                                         *)
(*   SpecMerge  the three merge-extract functions, as pure functions       *)
(*   Spec       update.py run, and the update check of the Mod-Manager it  *)
(*              closes and starts                                          *)
(*   SpecMM     modmanager.py: update check, updater launch, installer swap*)
(*   SpecV11    old_updater 1.1 task_update_exe, atomic_replace, watcher   *)
(*   SpecV11Live  SpecV11 with weak fairness of the script and the exit   *)
(*   SpecVer    semver_normalize, is_version_newer, compare_versions (1.0.3)*)
(*   SpecCheck  one update check on a drawn installed version and release  *)
(*   SpecAsset  find_asset_by_name and the asset lookups of modmanager.py  *)
(*   SpecDl     one streamed download with its progress callback, and the  *)
(*              GUI thread of old_updater 1.1 that receives its signals    *)
(*   SpecDlLive SpecDl with weak fairness of the downloading thread        *)
(*   SpecV10    old_updater 1.0 main: wait, swap modmanager_new.exe in,    *)
(*              launch                                                     *)
(*   SpecPath   the path each merge-extract function writes a member to    *)
(*   SpecRel    the worker threads of old_updater 1.1 and the release      *)
(*              metadata they share through the fields of UpdaterGUI       *)
(***************************************************************************)
EXTENDS Integers, Sequences, FiniteSets, TLC

\* ------------------------------------------------------------------------
\* Bounds of the model
\* ------------------------------------------------------------------------
\* longest archive (number of entries) drawn by SpecMerge
MaxEntries == 2
\* number of 8 KiB chunks of every release asset
Size == 2
\* how often the Install / Update button is pressed
MaxRuns == 2
\* threads a Mod-Manager process starts in its lifetime
MaxThreads == 2

VARIABLES
    \* ---- merge-extract (SpecMerge) ----
    tree,       \* destination directory tree: path -> "none" | "dir" | data
    tree0,      \* the tree before the call
    arch,       \* archive: sequence of members
    sep,        \* os.sep of the platform: "/" or "\\"
    mres,       \* result of the last call: [fn, ok, fail]
    \* ---- the install directory and the processes (Spec) ----
    fs,         \* file name -> [ver, len, lk]
    mmRunning,  \* a Mod-Manager process is alive
    updRunning, \* an update.py process is alive
    upPc,       \* position of InstallerUpdater.run
    upResult,   \* how the last run ended: "none" | "failed" | "done"
    dl,         \* the download in progress, if any
    runs,       \* number of runs started
    trusted,    \* files that an operation used as if complete
    wrote,      \* paths that a download opened for writing
    leftover,   \* files whose content a failed download left behind
    \* ---- modmanager.py (Spec) ----
    mmBin,      \* version of the executable the Mod-Manager process runs
    settings,   \* the settings dict of the running Mod-Manager
    settingsFile, \* resources/settings.json
    saves,      \* number of times save_settings wrote the file
    workers,    \* the threads of the Mod-Manager process
    timerQ,     \* _apply closures handed to QTimer.singleShot
    status,     \* text of update_label
    \* ---- old_updater 1.1 (SpecV11) ----
    rep,        \* the replacement of modmanager.exe: [fn, fault, locked, src0, res]
    watcher,    \* position of the script of _schedule_replace_and_exit
    polls,      \* polls of the process table made after kill_modmanager
    \* ---- calls of pure functions (SpecVer, SpecAsset) ----
    arg,        \* the arguments drawn for the call
    ret         \* the function called and what it returned

mergeVars == <<tree, tree0, arch, sep, mres>>
fsVars == <<fs, mmRunning, updRunning>>
updVars == <<upPc, upResult, dl, runs>>
ghostVars == <<trusted, wrote, leftover>>
mmVars == <<mmBin, settings, settingsFile, saves, workers, timerQ, status>>
v11Vars == <<rep, watcher, polls>>
callVars == <<arg, ret>>
\* what the steps of update.py never touch
frame == <<tree0, arch, sep, mres, mmBin, settings, settingsFile, saves, status,
           rep, watcher, polls, arg, ret>>
\* the threads and timers of the Mod-Manager process
mmThreads == <<workers, timerQ>>
vars == <<mergeVars, fsVars, updVars, ghostVars, mmVars, v11Vars, callVars>>

\* ------------------------------------------------------------------------
\* Directory trees
\* ------------------------------------------------------------------------
Names == {"resources", "a"}
\* os.listdir / os.walk order used by the model (the real order is arbitrary)
NameOrder == <<"resources", "a">>

Paths1 == {<<n>> : n \in Names}
Paths2 == {<<n, m>> : n \in Names, m \in Names}
Paths3 == {<<n, m, k>> : n \in Names, m \in Names, k \in Names}
AllPaths == Paths1 \cup Paths2 \cup Paths3

Root == <<>>
Parent(p) == SubSeq(p, 1, Len(p) - 1)
Last(p) == p[Len(p)]

EmptyTree == [p \in AllPaths |-> "none"]

Exists(t, p) == p = Root \/ (p \in AllPaths /\ t[p] # "none")
IsDir(t, p) == p = Root \/ (p \in AllPaths /\ t[p] = "dir")
IsFile(t, p) == p \in AllPaths /\ t[p] \notin {"none", "dir"}

IsPrefix(p, q) == Len(p) <= Len(q) /\ SubSeq(q, 1, Len(p)) = p

\* every existing node sits in an existing directory
WellFormed(t) == \A p \in AllPaths : t[p] # "none" => IsDir(t, Parent(p))

\* result of a filesystem operation: the tree and whether it raised
Ok(t) == [t |-> t, ok |-> TRUE]
Err(t) == [t |-> t, ok |-> FALSE]

\* os.makedirs(p, exist_ok=True)
RECURSIVE makedirs(_, _)
makedirs(t, p) ==
    IF p = Root THEN Ok(t)
    ELSE IF p \notin AllPaths THEN Err(t)
    ELSE LET up == makedirs(t, Parent(p)) IN
         IF ~up.ok THEN up
         ELSE IF up.t[p] = "dir" THEN up
         ELSE IF up.t[p] = "none" THEN Ok([up.t EXCEPT ![p] = "dir"])
         ELSE Err(up.t)

\* open(p, 'wb') followed by the copy of the data
writefile(t, p, data) ==
    IF p = Root \/ p \notin AllPaths THEN Err(t)
    ELSE IF ~IsDir(t, Parent(p)) \/ IsDir(t, p) THEN Err(t)
    ELSE Ok([t EXCEPT ![p] = data])

\* shutil.rmtree(p) / os.remove(p): p and everything below it
removetree(t, p) == [q \in AllPaths |-> IF IsPrefix(p, q) THEN "none" ELSE t[q]]

\* ------------------------------------------------------------------------
\* Archives
\* ------------------------------------------------------------------------
\* a member: its name split at '/', and whether the name ends with '/'
Member(c, d) == [comps |-> c, dir |-> d, data |-> IF d THEN "dir" ELSE "new"]

Members ==
    { Member(<<"resources">>, TRUE),
      Member(<<"resources", "a">>, FALSE),
      Member(<<"resources", "resources">>, FALSE),
      Member(<<"a">>, FALSE),
      Member(<<"a">>, TRUE),
      Member(<<"a", "a">>, FALSE) }

RECURSIVE SeqsUpTo(_, _)
SeqsUpTo(S, n) ==
    IF n = 0 THEN {<<>>}
    ELSE LET shorter == SeqsUpTo(S, n - 1) IN
         shorter \cup {Append(s, x) : s \in {q \in shorter : Len(q) = n - 1}, x \in S}

Archives == SeqsUpTo(Members, MaxEntries)

\* str.lower() on a path component
Lower(n) == IF n \in {"Resources", "RESOURCES"} THEN "resources" ELSE n

\* the member's name split at '/' (a directory's name ends with '/', which
\* leaves an empty last piece)
MemberStr(m) == IF m.dir THEN Append(m.comps, "") ELSE m.comps

\* member.split(os.sep): each part is itself a '/'-separated name; with
\* os.sep = "/" every part is one piece, with os.sep = "\\" a zip name, which
\* always uses '/', is never split
Split(m, s) ==
    IF s = "/" THEN [i \in 1..Len(MemberStr(m)) |-> <<MemberStr(m)[i]>>]
    ELSE <<MemberStr(m)>>

RECURSIVE Flatten(_)
Flatten(parts) ==
    IF parts = <<>> THEN <<>> ELSE parts[1] \o Flatten(Tail(parts))

NotEmptyPiece(c) == c # ""
\* os.path.join(dest_folder, *parts), as the operating system resolves it:
\* '/' separates on both platforms and empty pieces vanish
Join(parts) == SelectSeq(Flatten(parts), NotEmptyPiece)

\* where a failure is injected: stage "none" | "open" | "extract" | "copy",
\* and the number k of the entry (or copy operation) that raises
NoFail == [stage |-> "none", k |-> 0]
FailPoints(n) ==
    {NoFail, [stage |-> "open", k |-> 0]}
    \cup {[stage |-> "extract", k |-> k] : k \in 1..n}
    \cup {[stage |-> "copy", k |-> k] : k \in 1..(n + 1)}

\* ---- update.py: InstallerUpdater.unzip_and_merge ----
resources_folder_name == "resources"

\* parts after the removal of a leading "resources" part
UM_Parts(m, s) ==
    LET parts == Split(m, s) IN
    IF Len(parts[1]) = 1 /\ Lower(parts[1][1]) = Lower(resources_folder_name)
    THEN Tail(parts) ELSE parts

UM_Target(m, s) == Join(UM_Parts(m, s))

\* an iteration that removes an existing target, a directory with all it
\* holds, before the entry is put in its place
UM_Entry_Replacing(t, m, s) ==
    LET target == UM_Target(m, s)
        cleared == IF target # Root /\ Exists(t, target) THEN removetree(t, target) ELSE t
    IN  IF m.dir THEN makedirs(cleared, target)
        ELSE IF target = Root THEN Err(t)
        ELSE LET up == makedirs(cleared, Parent(target)) IN
             IF ~up.ok THEN up ELSE writefile(up.t, target, m.data)

\* an iteration that opens an existing target file for appending
UM_Entry_Appending(t, m, s) ==
    LET target == UM_Target(m, s) IN
    IF m.dir THEN makedirs(t, target)
    ELSE IF target = Root THEN Err(t)
    ELSE LET up == makedirs(t, Parent(target)) IN
         IF ~up.ok THEN up
         ELSE writefile(up.t, target,
                        IF IsFile(up.t, target) THEN "appended" ELSE m.data)

\* one iteration of the loop over namelist()
UM_Entry(t, m, s) ==
    LET target == UM_Target(m, s) IN
    IF m.dir THEN makedirs(t, target)
    ELSE IF target = Root THEN Err(t)
    ELSE LET up == makedirs(t, Parent(target)) IN
         IF ~up.ok THEN up ELSE writefile(up.t, target, m.data)

RECURSIVE UM_Loop(_, _, _, _, _)
UM_Loop(t, a, i, s, fail) ==
    IF i > Len(a) THEN Ok(t)
    ELSE IF fail.stage = "extract" /\ fail.k = i THEN Err(t)
    ELSE LET r == UM_Entry(t, a[i], s) IN
         IF ~r.ok THEN r ELSE UM_Loop(r.t, a, i + 1, s, fail)

unzip_and_merge(t, a, s, fail) ==
    IF fail.stage = "open" THEN Err(t) ELSE UM_Loop(t, a, 1, s, fail)

\* ---- zipfile.ZipFile.extractall(path), as the three functions use it ----
ExtractMember(t, m) ==
    LET target == m.comps
        up == IF Exists(t, Parent(target)) THEN Ok(t) ELSE makedirs(t, Parent(target))
    IN  IF ~up.ok THEN up
        ELSE IF m.dir
             THEN IF IsDir(up.t, target) THEN up
                  ELSE IF Exists(up.t, target) \/ ~IsDir(up.t, Parent(target)) THEN Err(up.t)
                  ELSE Ok([up.t EXCEPT ![target] = "dir"])
             ELSE writefile(up.t, target, m.data)

RECURSIVE ExtractLoop(_, _, _, _)
ExtractLoop(t, a, i, fail) ==
    IF i > Len(a) THEN Ok(t)
    ELSE IF fail.stage = "extract" /\ fail.k = i THEN Err(t)
    ELSE LET r == ExtractMember(t, a[i]) IN
         IF ~r.ok THEN r ELSE ExtractLoop(r.t, a, i + 1, fail)

extractall(t, a, fail) ==
    IF fail.stage = "open" THEN Err(t) ELSE ExtractLoop(t, a, 1, fail)

\* ---- old_updater 1.1: unzip_to(zip_path, dest_folder, overwrite=True) ----
\* the names of NameOrder, from position i on, that satisfy a test in dir d
RECURSIVE FilesIn(_, _, _)
FilesIn(stage, d, i) ==
    IF i > Len(NameOrder) THEN <<>>
    ELSE LET p == Append(d, NameOrder[i]) IN
         (IF IsFile(stage, p) THEN <<[op |-> "copy", p |-> p]>> ELSE <<>>)
         \o FilesIn(stage, d, i + 1)

\* os.walk(tempdir), top down: per directory one makedirs and one copy2 per file
RECURSIVE WalkOps(_, _)
RECURSIVE WalkSubdirs(_, _, _)
WalkOps(stage, d) ==
    <<[op |-> "makedirs", p |-> d]>> \o FilesIn(stage, d, 1) \o WalkSubdirs(stage, d, 1)
WalkSubdirs(stage, d, i) ==
    IF i > Len(NameOrder) THEN <<>>
    ELSE LET p == Append(d, NameOrder[i]) IN
         (IF p \in AllPaths /\ IsDir(stage, p) THEN WalkOps(stage, p) ELSE <<>>)
         \o WalkSubdirs(stage, d, i + 1)

\* shutil.copy2(src, dst): a dst that is a directory receives the file inside
copy2(t, dst, data) ==
    IF IsDir(t, dst) THEN writefile(t, Append(dst, Last(dst)), data)
    ELSE writefile(t, dst, data)

UT_Op(t, stage, o) ==
    IF o.op = "makedirs" THEN makedirs(t, o.p) ELSE copy2(t, o.p, stage[o.p])

RECURSIVE UT_Loop(_, _, _, _, _)
UT_Loop(t, stage, ops, i, fail) ==
    IF i > Len(ops) THEN Ok(t)
    ELSE IF fail.stage = "copy" /\ fail.k = i THEN Err(t)
    ELSE LET r == UT_Op(t, stage, ops[i]) IN
         IF ~r.ok THEN r ELSE UT_Loop(r.t, stage, ops, i + 1, fail)

unzip_to(t, a, fail) ==
    LET staged == extractall(EmptyTree, a, fail) IN
    IF ~staged.ok THEN Err(t)
    ELSE UT_Loop(t, staged.t, WalkOps(staged.t, Root), 1, fail)

\* ---- old_updater 1.2: unzip_and_merge(zip_path, extract_to) ----
\* os.listdir(nested_resources)
RECURSIVE ListDir(_, _, _)
ListDir(t, d, i) ==
    IF i > Len(NameOrder) THEN <<>>
    ELSE (IF Exists(t, Append(d, NameOrder[i])) THEN <<Append(d, NameOrder[i])>> ELSE <<>>)
         \o ListDir(t, d, i + 1)

\* the loop over the items of extract_to/resources: src and dst are the same
\* path, so the item is removed and the move of the removed item raises
UM12_MoveItems(t) ==
    LET nested == <<"resources">>
        items == ListDir(t, nested, 1)
    IN  IF ~Exists(t, nested) THEN Ok(t)
        ELSE IF ~IsDir(t, nested) THEN Err(t)
        ELSE IF items = <<>> THEN Ok(t)
        ELSE Err(removetree(t, items[1]))

unzip_and_merge_12(t, a, fail) ==
    LET x == extractall(t, a, fail) IN
    IF ~x.ok THEN x
    ELSE IF fail.stage = "copy" /\ fail.k = 1 THEN Err(x.t)
    ELSE UM12_MoveItems(x.t)

\* ------------------------------------------------------------------------
\* Version strings (sequences of characters)
\* ------------------------------------------------------------------------
None == <<"None">>
Digits == {"0", "1", "2", "3", "9"}
DigitVal(c) ==
    IF c = "0" THEN 0 ELSE IF c = "1" THEN 1 ELSE IF c = "2" THEN 2
    ELSE IF c = "3" THEN 3 ELSE 9

V_1_0_9 == <<"1", ".", "0", ".", "9">>
V_1_0_10 == <<"1", ".", "0", ".", "1", "0">>
Tag_v1_0_10 == <<"v">> \o V_1_0_10

\* modmanager.py line 28
SCRIPT_VERSION == V_1_0_9
\* the version constant of the released executable, and the tag of its release
NewScriptVersion == V_1_0_10
ReleaseTag == Tag_v1_0_10

RECURSIVE LStrip(_)
LStrip(s) == IF s # <<>> /\ s[1] = " " THEN LStrip(Tail(s)) ELSE s
RECURSIVE RStrip(_)
RStrip(s) ==
    IF s # <<>> /\ s[Len(s)] = " " THEN RStrip(SubSeq(s, 1, Len(s) - 1)) ELSE s
Strip(s) == RStrip(LStrip(s))

Falsy(x) == x = None \/ x = <<>>

\* modmanager.py semver_normalize
semver_normalize(tag) ==
    IF Falsy(tag) THEN None
    ELSE LET t == Strip(tag) IN
         IF t # <<>> /\ t[1] \in {"v", "V"} THEN Tail(t) ELSE t

\* str.split(".")
RECURSIVE SplitDots(_, _)
SplitDots(s, cur) ==
    IF s = <<>> THEN <<cur>>
    ELSE IF s[1] = "." THEN <<cur>> \o SplitDots(Tail(s), <<>>)
    ELSE SplitDots(Tail(s), Append(cur, s[1]))

\* a string of decimal digits: what int() and packaging take as a number
IsDigitStr(x) == x # <<>> /\ \A i \in 1..Len(x) : x[i] \in Digits

\* the character U+00B2 (superscript two): a digit for str.isdigit(), not a
\* decimal digit for int()
Sup2 == "sup2"

\* str.isdigit()
isdigit(x) == x # <<>> /\ \A i \in 1..Len(x) : x[i] \in Digits \cup {Sup2}

\* int(x) of a digit string
RECURSIVE IntOf(_, _)
IntOf(x, acc) == IF x = <<>> THEN acc ELSE IntOf(Tail(x), acc * 10 + DigitVal(x[1]))

\* list comparison a < b of Python
RECURSIVE ListLess(_, _)
ListLess(a, b) ==
    IF b = <<>> THEN FALSE
    ELSE IF a = <<>> THEN TRUE
    ELSE IF a[1] # b[1] THEN a[1] < b[1]
    ELSE ListLess(Tail(a), Tail(b))

RECURSIVE DropTrailingZeros(_)
DropTrailingZeros(r) ==
    IF r # <<>> /\ r[Len(r)] = 0 THEN DropTrailingZeros(SubSeq(r, 1, Len(r) - 1)) ELSE r

\* packaging.version.parse, for the release segment N(.N)* with an optional
\* leading v and surrounding whitespace; any other string is InvalidVersion
PkgParse(s) ==
    IF s = None THEN [ok |-> FALSE, rel |-> <<>>]
    ELSE LET t == Strip(s)
             u == IF t # <<>> /\ t[1] \in {"v", "V"} THEN Tail(t) ELSE t
             parts == SplitDots(u, <<>>)
         IN  IF \A i \in 1..Len(parts) : IsDigitStr(parts[i])
             THEN [ok |-> TRUE,
                   rel |-> DropTrailingZeros([i \in 1..Len(parts) |-> IntOf(parts[i], 0)])]
             ELSE [ok |-> FALSE, rel |-> <<>>]

\* [int(x) for x in v.split(".") if x.isdigit()]
NaiveParts(v) ==
    LET parts == SplitDots(v, <<>>)
        digitParts == SelectSeq(parts, isdigit)
    IN  [i \in 1..Len(digitParts) |-> IntOf(digitParts[i], 0)]

\* the list comprehension does not raise: v is a string and int() takes
\* every part that isdigit() lets through
NaiveOk(v) ==
    /\ v # None
    /\ \A i \in 1..Len(SplitDots(v, <<>>)) :
           isdigit(SplitDots(v, <<>>)[i]) => IsDigitStr(SplitDots(v, <<>>)[i])

\* modmanager.py is_version_newer
is_version_newer(installed, latest) ==
    IF PkgParse(latest).ok /\ PkgParse(installed).ok
    THEN ListLess(PkgParse(installed).rel, PkgParse(latest).rel)
    ELSE IF NaiveOk(latest) /\ NaiveOk(installed)
         THEN ListLess(NaiveParts(installed), NaiveParts(latest))
         ELSE latest # installed /\ latest # None

\* ------------------------------------------------------------------------
\* The install directory
\* ------------------------------------------------------------------------
\* modmanager.exe, modmanager_old.exe, update.exe, update_new.exe,
\* update_old.exe and the downloaded resources.zip; for old_updater 1.1 the
\* staging files modmanager.exe.new and update.exe.new, the two downloads
\* in its temporary directory, and the script of _schedule_replace_and_exit
Files == {"mm", "mm_old", "upd", "upd_new", "upd_old", "zip",
          "mm.new", "upd.new", "tmp_mm", "tmp_upd", "script"}
\* the live install targets among them
LiveTargets == {"mm", "upd"}

\* a file: which version its bytes come from ("none": no such file), how many
\* chunks it holds, and the process that keeps it open ("" if none)
File(v, n, k) == [ver |-> v, len |-> n, lk |-> k]
NoFile == File("none", 0, "")
OldFile == File("old", Size, "")
FileValues == {NoFile} \cup
    {File(v, n, k) : v \in {"old", "new"}, n \in 0..Size, k \in {"", "mm", "upd"}}

exists(f, p) == f[p].ver # "none"
Complete(x) == x.ver # "none" /\ x.len = Size
Locked(f, p) == f[p].lk # ""

\* a process ends: the files it kept open are released
Release(f, who) ==
    [p \in Files |-> IF f[p].lk = who THEN [f[p] EXCEPT !.lk = ""] ELSE f[p]]
\* a process starts from the executable at p and keeps it open
Hold(f, p, who) == [f EXCEPT ![p].lk = who]

\* os.rename(src, dst) that succeeded
Rename(f, src, dst) == [f EXCEPT ![dst] = f[src], ![src] = NoFile]
RenameLeft(l, src, dst) ==
    IF src \in l THEN (l \ {src}) \cup {dst} ELSE l \ {dst}

\* an operation takes the file at p as usable; partial: the file is what a
\* download that did not finish left behind
Use(who, p) == [by |-> who, partial |-> p \in leftover /\ ~Complete(fs[p])]

\* ---- the Mod-Manager process ----
Free == [kind |-> "free", pc |-> "", total |-> 0]
\* a thread whose target function has returned
Ended == [kind |-> "ended", pc |-> "", total |-> 0]
Tids == 1..MaxThreads
NoThreads == [t \in Tids |-> Free]
\* threading.Thread(...).start(): the new thread takes the first unused slot;
\* a process starts at most MaxThreads threads
Unused(t) == /\ workers[t].kind = "free"
             /\ \A u \in Tids : workers[u].kind = "free" => t <= u
\* the file a thread is writing, if it is in the middle of a download
Streaming(w) == {"upd_new" : t \in {u \in Tids : w[u].pc = "stream"}}

\* the process ends (QApplication.quit and sys.exit, or taskkill): its daemon
\* threads end with it, wherever they are, and its executable is released
MMExit ==
    /\ mmRunning' = FALSE
    /\ fs' = Release(fs, "mm")
    /\ workers' = NoThreads
    /\ timerQ' = <<>>
    /\ leftover' = leftover \cup Streaming(workers)

\* ------------------------------------------------------------------------
\* update.py: InstallerUpdater
\* ------------------------------------------------------------------------
NoDl == [st |-> "none", dest |-> "", total |-> 0]

\* a failed step after which the run goes on to start Mod-Manager
Raise_Continuing ==
    /\ upPc' = "launch"
    /\ upResult' = "failed"
    /\ dl' = NoDl

\* an exception leaves the Tk callback: the run is over, the window stays
Raise ==
    /\ upPc' = "idle"
    /\ upResult' = "failed"
    /\ dl' = NoDl

\* the position after the download that ends at position pc
AfterDownload(pc) ==
    IF pc = "dl_upd" THEN "mv_old" ELSE IF pc = "dl_mm" THEN "rm_old" ELSE "merge"
DownloadDest(pc) ==
    IF pc = "dl_upd" THEN "upd_new" ELSE IF pc = "dl_mm" THEN "mm" ELSE "zip"

\* the user starts the updater (update.exe, or a copy kept elsewhere)
StartUpdater ==
    /\ ~updRunning /\ upPc = "off"
    /\ \E from \in {"upd", "ext"} :
         /\ from = "upd" => (Complete(fs["upd"]) /\ ~Locked(fs, "upd"))
         /\ fs' = IF from = "upd" THEN Hold(fs, "upd", "upd") ELSE fs
    /\ updRunning' = TRUE
    /\ upPc' = "idle"
    /\ UNCHANGED <<mmRunning, upResult, dl, runs, trusted, wrote, tree, frame, mmThreads, leftover>>

\* run, lines 128-139: the path check, save_install_path, makedirs
Run_Begin ==
    /\ upPc = "idle" /\ runs < MaxRuns
    /\ runs' = runs + 1
    /\ \E install_dir \in {"", "dir"}, saved \in BOOLEAN :
         \/ /\ install_dir = ""
            /\ UNCHANGED <<upPc, upResult, dl>>
         \/ /\ install_dir # "" /\ ~saved
            /\ Raise
         \/ /\ install_dir # "" /\ saved
            /\ upPc' = "close"
            /\ upResult' = "none"
            /\ dl' = NoDl
    /\ UNCHANGED <<fs, mmRunning, updRunning, trusted, wrote, tree, frame, mmThreads, leftover>>

\* close_modmanager: taskkill /f /im modmanager.exe, its exit status ignored
Run_Close ==
    /\ upPc = "close"
    /\ \E outcome \in {"killed", "not_killed", "no_taskkill"} :
         \/ /\ outcome = "killed" /\ mmRunning
            /\ MMExit
            /\ upPc' = "chk_upd"
            /\ UNCHANGED <<upResult, dl>>
         \/ /\ outcome = "not_killed"
            /\ upPc' = "chk_upd"
            /\ UNCHANGED <<fs, mmRunning, upResult, dl, mmThreads, leftover>>
         \/ /\ outcome = "no_taskkill"
            /\ Raise
            /\ UNCHANGED <<fs, mmRunning, mmThreads, leftover>>
    /\ UNCHANGED <<updRunning, runs, trusted, wrote, tree, frame>>

\* lines 145-149: update_new.exe is downloaded only if no such file exists
Run_CheckUpdateNew ==
    /\ upPc = "chk_upd"
    /\ \/ /\ exists(fs, "upd_new")
          /\ trusted' = trusted \cup {Use("run", "upd_new")}
          /\ upPc' = "mv_old"
          /\ dl' = NoDl
       \/ /\ ~exists(fs, "upd_new")
          /\ upPc' = "dl_upd"
          /\ dl' = [st |-> "request", dest |-> "upd_new", total |-> 0]
          /\ UNCHANGED trusted
    /\ UNCHANGED <<fs, mmRunning, updRunning, upResult, runs, wrote, tree, frame, mmThreads, leftover>>

\* download_file, lines 75-77: the request, raise_for_status, content-length
Dl_Request ==
    /\ upPc \in {"dl_upd", "dl_mm", "dl_zip"} /\ dl.st = "request"
    /\ \E answer \in {"error", "length", "no_length"} :
         \/ /\ answer = "error"
            /\ Raise
         \/ /\ answer # "error"
            /\ dl' = [dl EXCEPT !.st = "open",
                                !.total = IF answer = "length" THEN Size ELSE 0]
            /\ UNCHANGED <<upPc, upResult>>
    /\ UNCHANGED <<fs, mmRunning, updRunning, runs, trusted, wrote, tree, frame, mmThreads, leftover>>

\* download_file, line 79: open(dest, 'wb')
Dl_Open ==
    /\ upPc \in {"dl_upd", "dl_mm", "dl_zip"} /\ dl.st = "open"
    /\ \/ /\ Locked(fs, dl.dest)
          /\ Raise
          /\ UNCHANGED <<fs, wrote, leftover>>
       \/ /\ ~Locked(fs, dl.dest)
          /\ fs' = [fs EXCEPT ![dl.dest] = File("new", 0, "")]
          /\ wrote' = wrote \cup {dl.dest}
          /\ leftover' = leftover \ {dl.dest}
          /\ dl' = [dl EXCEPT !.st = "stream"]
          /\ UNCHANGED <<upPc, upResult>>
    /\ UNCHANGED <<mmRunning, updRunning, runs, trusted, tree, frame, mmThreads>>

\* download_file, lines 80-83: one chunk is written
Dl_Chunk ==
    /\ upPc \in {"dl_upd", "dl_mm", "dl_zip"} /\ dl.st = "stream"
    /\ fs[dl.dest].len < Size
    /\ fs' = [fs EXCEPT ![dl.dest].len = @ + 1]
    /\ UNCHANGED <<mmRunning, updRunning, upPc, upResult, dl, runs, trusted, wrote, tree, frame, mmThreads, leftover>>

\* the stream breaks and iter_content raises: the file stays as written so far
Dl_Broken ==
    /\ upPc \in {"dl_upd", "dl_mm", "dl_zip"} /\ dl.st = "stream"
    /\ fs[dl.dest].len < Size
    /\ Raise
    /\ leftover' = leftover \cup {dl.dest}
    /\ UNCHANGED <<fs, mmRunning, updRunning, runs, trusted, wrote, tree, frame, mmThreads>>

\* iter_content is exhausted and download_file returns; the connection may
\* have closed early, which the loop does not tell from the end of the body
Dl_Return ==
    /\ upPc \in {"dl_upd", "dl_mm", "dl_zip"} /\ dl.st = "stream"
    /\ upPc' = AfterDownload(upPc)
    /\ dl' = [dl EXCEPT !.st = "returned"]
    /\ UNCHANGED <<fs, mmRunning, updRunning, upResult, runs, trusted, wrote, tree, frame, mmThreads, leftover>>

\* An executable file is started (subprocess.Popen): a complete one runs, an
\* incomplete one either makes Popen raise or starts and dies at once
PopenOutcomes(x) ==
    IF x.ver = "none" THEN {"raise"}
    ELSE IF Complete(x) THEN {"started"} ELSE {"raise", "died"}

\* lines 154-157: modmanager.exe is renamed to modmanager_old.exe, then the
\* download is pointed at modmanager.exe itself.  os.rename on Windows (the
\* platform of taskkill) raises if the new name exists; a running executable
\* can be renamed, a file held open without delete sharing cannot
Run_MoveOld ==
    /\ upPc = "mv_old"
    /\ \/ /\ ~exists(fs, "mm")
          /\ UNCHANGED <<fs, leftover>>
          /\ upPc' = "dl_mm"
          /\ dl' = [st |-> "request", dest |-> "mm", total |-> 0]
          /\ UNCHANGED upResult
       \/ /\ exists(fs, "mm")
          /\ \E renamed \in BOOLEAN :
               /\ renamed => ~exists(fs, "mm_old")
               /\ ~renamed => (exists(fs, "mm_old") \/ Locked(fs, "mm"))
               /\ IF renamed
                  THEN /\ fs' = Rename(fs, "mm", "mm_old")
                       /\ leftover' = RenameLeft(leftover, "mm", "mm_old")
                       /\ upPc' = "dl_mm"
                       /\ dl' = [st |-> "request", dest |-> "mm", total |-> 0]
                       /\ UNCHANGED upResult
                  ELSE /\ Raise
                       /\ UNCHANGED <<fs, leftover>>
    /\ UNCHANGED <<mmRunning, updRunning, runs, trusted, wrote, tree, frame, mmThreads>>

\* lines 158-159: the backup is removed once download_file has returned
Run_RemoveOld ==
    /\ upPc = "rm_old"
    /\ \/ /\ ~exists(fs, "mm_old")
          /\ UNCHANGED <<fs, leftover>>
          /\ upPc' = "dl_zip"
          /\ dl' = [st |-> "request", dest |-> "zip", total |-> 0]
          /\ UNCHANGED upResult
       \/ /\ exists(fs, "mm_old") /\ ~Locked(fs, "mm_old")
          /\ fs' = [fs EXCEPT !["mm_old"] = NoFile]
          /\ leftover' = leftover \ {"mm_old"}
          /\ upPc' = "dl_zip"
          /\ dl' = [st |-> "request", dest |-> "zip", total |-> 0]
          /\ UNCHANGED upResult
       \/ /\ exists(fs, "mm_old") /\ Locked(fs, "mm_old")
          /\ Raise
          /\ UNCHANGED <<fs, leftover>>
    /\ UNCHANGED <<mmRunning, updRunning, runs, trusted, wrote, tree, frame, mmThreads>>

\* lines 166-167: makedirs(resources_path) and unzip_and_merge; an incomplete
\* zip file has no central directory and ZipFile raises
Run_Merge ==
    /\ upPc = "merge"
    /\ \E fail \in {f \in FailPoints(Len(arch)) : f.stage \in {"none", "extract"}} :
         LET r == IF Complete(fs["zip"]) THEN unzip_and_merge(tree, arch, "\\", fail)
                  ELSE Err(tree)
         IN  /\ tree' = r.t
             /\ IF r.ok THEN /\ upPc' = "rm_zip"
                             /\ dl' = NoDl
                             /\ UNCHANGED upResult
                ELSE Raise
    /\ UNCHANGED <<fs, mmRunning, updRunning, runs, trusted, wrote, frame, mmThreads, leftover>>

\* line 168: os.remove(tmp_zip)
Run_RemoveZip ==
    /\ upPc = "rm_zip"
    /\ fs' = [fs EXCEPT !["zip"] = NoFile]
    /\ leftover' = leftover \ {"zip"}
    /\ upPc' = "shortcut"
    /\ UNCHANGED <<mmRunning, updRunning, upResult, dl, runs, trusted, wrote, tree, frame, mmThreads>>

\* lines 171-176: the optional desktop shortcut; a COM error raises
Run_Shortcut ==
    /\ upPc = "shortcut"
    /\ \E create \in BOOLEAN, ok \in BOOLEAN :
         IF create /\ ~ok THEN Raise
         ELSE /\ upPc' = "launch"
              /\ UNCHANGED <<upResult, dl>>
    /\ UNCHANGED <<fs, mmRunning, updRunning, runs, trusted, wrote, tree, frame, mmThreads, leftover>>

\* ------------------------------------------------------------------------
\* modmanager.py
\* ------------------------------------------------------------------------
ScriptVersionOf(bin) == IF bin = "new" THEN NewScriptVersion ELSE SCRIPT_VERSION
NoSettingsFile == [present |-> FALSE, version |-> None, last_release_tag |-> None]
InitialStatus == [dot |-> "red", text |-> "Update available"]

\* module level, lines 57-82: settings.json is created with the version
\* constant of the running executable only if it does not exist yet
LoadedSettingsFile(bin) ==
    IF settingsFile.present THEN settingsFile
    ELSE [present |-> TRUE, version |-> ScriptVersionOf(bin), last_release_tag |-> None]

\* a Mod-Manager process starts from the executable of version bin
MMStart(bin) ==
    /\ mmRunning' = TRUE
    /\ mmBin' = bin
    /\ settingsFile' = LoadedSettingsFile(bin)
    /\ settings' = [version |-> LoadedSettingsFile(bin).version,
                    last_release_tag |-> LoadedSettingsFile(bin).last_release_tag]
    /\ workers' = NoThreads
    /\ timerQ' = <<>>
    /\ status' = InitialStatus

\* update.py lines 174-180: Popen(modmanager_path), then root.after(2000, destroy)
Run_Launch ==
    /\ upPc = "launch"
    /\ \E outcome \in PopenOutcomes(fs["mm"]) :
         \/ /\ outcome = "raise"
            /\ Raise
            /\ UNCHANGED <<fs, mmRunning, mmVars>>
         \/ /\ outcome = "started" /\ ~mmRunning
            /\ MMStart(fs["mm"].ver)
            /\ fs' = Hold(fs, "mm", "mm")
            /\ upPc' = "after"
            /\ upResult' = "done"
            /\ UNCHANGED <<dl, saves>>
         \/ /\ \/ outcome = "died"
               \/ outcome = "started" /\ mmRunning
            /\ upPc' = "after"
            /\ upResult' = "done"
            /\ UNCHANGED <<fs, mmRunning, dl, mmVars>>
    /\ UNCHANGED <<updRunning, runs, trusted, wrote, leftover, mergeVars, v11Vars, callVars>>

\* the window is destroyed and the updater process ends
Run_Destroy ==
    /\ upPc = "after"
    /\ upPc' = "off"
    /\ updRunning' = FALSE
    /\ fs' = Release(fs, "upd")
    /\ UNCHANGED <<mmRunning, upResult, dl, runs, ghostVars, mergeVars, v11Vars, callVars, mmVars>>

\* check_updates_manual / check_updates_background: a thread is started
MM_Check ==
    /\ mmRunning
    /\ \E t \in Tids :
         /\ Unused(t)
         /\ workers' = [workers EXCEPT ![t] = [kind |-> "check", pc |-> "fetch", total |-> 0]]
    /\ UNCHANGED <<fsVars, updVars, ghostVars, mergeVars, v11Vars, callVars,
                   mmBin, settings, settingsFile, saves, timerQ, status>>

\* set_update_status: the change of the widgets is handed to QTimer.singleShot
Post(available, text) ==
    Append(timerQ, [dot |-> IF available THEN "green" ELSE "red", text |-> text])

\* a failed fetch handled by storing an empty tag and saving the settings
Chk_FetchFailed_Saving(t) ==
    /\ workers[t].kind = "check" /\ workers[t].pc = "fetch"
    /\ settings' = [settings EXCEPT !.last_release_tag = None]
    /\ settingsFile' = [present |-> TRUE, version |-> settings.version,
                        last_release_tag |-> None]
    /\ saves' = saves + 1
    /\ timerQ' = Post(FALSE, "Unable to check")
    /\ workers' = [workers EXCEPT ![t] = Ended]
    /\ UNCHANGED <<fsVars, updVars, ghostVars, mergeVars, v11Vars, callVars, mmBin, status>>

\* _check_updates_and_update_ui, lines 620-624: fetch_latest_release_info
\* returns None on any error, and the check ends with "Unable to check"
Chk_FetchFailed(t) ==
    /\ workers[t].kind = "check" /\ workers[t].pc = "fetch"
    /\ timerQ' = Post(FALSE, "Unable to check")
    /\ workers' = [workers EXCEPT ![t] = Ended]
    /\ UNCHANGED <<fsVars, updVars, ghostVars, mergeVars, v11Vars, callVars,
                   mmBin, settings, settingsFile, saves, status>>

Chk_Fetched(t) ==
    /\ workers[t].kind = "check" /\ workers[t].pc = "fetch"
    /\ workers' = [workers EXCEPT ![t].pc = "decide"]
    /\ UNCHANGED <<fsVars, updVars, ghostVars, mergeVars, v11Vars, callVars,
                   mmBin, settings, settingsFile, saves, timerQ, status>>

\* a comparison that takes the tag as it comes and the operands in the
\* other order
CheckAvailable_Swapped(version, tag) ==
    ~Falsy(tag) /\ ~Falsy(version) /\ is_version_newer(tag, semver_normalize(version))

\* the condition of lines 626-628 on settings["version"] and the tag
CheckAvailable(version, tag) ==
    LET tag_norm == semver_normalize(tag)
        installed == semver_normalize(version)
    IN  ~Falsy(tag_norm) /\ ~Falsy(installed) /\ is_version_newer(installed, tag_norm)

\* line 625: latest.get("tag_name") or latest.get("name")
TagOf(tag_name, name) == IF Falsy(tag_name) THEN name ELSE tag_name

\* the outcome of the comparison of lines 625-628
CheckSaysNewer(tag) == CheckAvailable(settings.version, tag)

\* the label of line 630, f"Update available ({tag})"
AvailableText(tag) ==
    IF tag = ReleaseTag THEN "Update available (v1.0.10)" ELSE "Update available (tag)"

\* a check that stores and saves the tag only when it reports an update
Decide_StoringWhenNewer(tag) ==
    LET new == IF CheckSaysNewer(tag) THEN [settings EXCEPT !.last_release_tag = tag]
               ELSE settings
    IN
    /\ settings' = new
    /\ \E written \in BOOLEAN :
         /\ settingsFile' =
               IF written /\ CheckSaysNewer(tag)
               THEN [present |-> TRUE, version |-> new.version,
                     last_release_tag |-> new.last_release_tag]
               ELSE settingsFile
         /\ saves' = IF written /\ CheckSaysNewer(tag) THEN saves + 1 ELSE saves
    /\ timerQ' = IF CheckSaysNewer(tag)
                 THEN Post(TRUE, AvailableText(tag))
                 ELSE Post(FALSE, "Up to date")

\* lines 625-636 for the tag of the fetched release: the tag is stored,
\* save_settings writes the file (a failed write is printed and ignored),
\* and the status is set
Decide(tag) ==
    LET new == [settings EXCEPT !.last_release_tag = tag] IN
    /\ settings' = new
    /\ \E written \in BOOLEAN :
         /\ settingsFile' =
               IF written
               THEN [present |-> TRUE, version |-> new.version,
                     last_release_tag |-> new.last_release_tag]
               ELSE settingsFile
         /\ saves' = IF written THEN saves + 1 ELSE saves
    /\ timerQ' = IF CheckSaysNewer(tag)
                 THEN Post(TRUE, AvailableText(tag))
                 ELSE Post(FALSE, "Up to date")

\* _check_updates_and_update_ui after the fetch of release v1.0.10
Chk_Decide(t) ==
    /\ workers[t].kind = "check" /\ workers[t].pc = "decide"
    /\ Decide(ReleaseTag)
    /\ workers' = [workers EXCEPT ![t] = Ended]
    /\ UNCHANGED <<fsVars, updVars, ghostVars, mergeVars, v11Vars, callVars, mmBin, status>>

\* the event loop runs a posted _apply
UI_Apply ==
    /\ mmRunning /\ timerQ # <<>>
    /\ status' = Head(timerQ)
    /\ timerQ' = Tail(timerQ)
    /\ UNCHANGED <<fsVars, updVars, ghostVars, mergeVars, v11Vars, callVars,
                   mmBin, settings, settingsFile, saves, workers>>

\* the updater executable at p is started by Mod-Manager, which then quits
\* (QApplication.quit, sys.exit(0)); one updater process is followed.  A
\* process that Popen started from a damaged file ends at once ("crashed")
SpawnUpdaterAndQuit(p, outcome) ==
    /\ outcome \in {"started", "died"}
    /\ mmRunning' = FALSE
    /\ workers' = NoThreads
    /\ timerQ' = <<>>
    /\ leftover' = leftover \cup Streaming(workers)
    /\ IF outcome = "started"
       THEN /\ fs' = Hold(Release(fs, "mm"), p, "upd")
            /\ updRunning' = TRUE
            /\ upPc' = "idle"
            /\ UNCHANGED upResult
       ELSE /\ fs' = Release(fs, "mm")
            /\ upResult' = "crashed"
            /\ UNCHANGED <<updRunning, upPc>>

\* Mod-Manager quits without having started anything
QuitWithoutSpawn ==
    /\ mmRunning' = FALSE
    /\ workers' = NoThreads
    /\ timerQ' = <<>>
    /\ leftover' = leftover \cup Streaming(workers)
    /\ fs' = Release(fs, "mm")
    /\ UNCHANGED <<updRunning, upPc, upResult>>

\* a launch that quits although Popen has raised
MM_LaunchUpdate_QuitAnyway ==
    /\ mmRunning /\ ~updRunning
    /\ \/ /\ \/ exists(fs, "upd_new")
             \/ exists(fs, "upd")
          /\ LET exe_to_run == IF exists(fs, "upd_new") THEN "upd_new" ELSE "upd" IN
             /\ trusted' = trusted \cup {Use("launch", exe_to_run)}
             /\ \E outcome \in PopenOutcomes(fs[exe_to_run]) :
                  \/ /\ outcome = "raise"
                     /\ QuitWithoutSpawn
                  \/ SpawnUpdaterAndQuit(exe_to_run, outcome)
       \/ /\ ~exists(fs, "upd_new") /\ ~exists(fs, "upd")
          /\ \E t \in Tids :
               /\ Unused(t)
               /\ workers' = [workers EXCEPT ![t] =
                                 [kind |-> "dl_launch", pc |-> "fetch", total |-> 0]]
          /\ UNCHANGED <<fsVars, upPc, upResult, timerQ, trusted, leftover>>
    /\ UNCHANGED <<dl, runs, wrote, mergeVars, v11Vars, callVars,
                   mmBin, settings, settingsFile, saves, status>>

\* launch_update_modmanager, lines 658-687
MM_LaunchUpdate ==
    /\ mmRunning /\ ~updRunning
    /\ \/ /\ \/ exists(fs, "upd_new")
             \/ exists(fs, "upd")
          /\ LET exe_to_run == IF exists(fs, "upd_new") THEN "upd_new" ELSE "upd" IN
             /\ trusted' = trusted \cup {Use("launch", exe_to_run)}
             /\ \E outcome \in PopenOutcomes(fs[exe_to_run]) :
                  \/ /\ outcome = "raise"
                     /\ UNCHANGED <<fsVars, upPc, upResult, mmThreads, leftover>>
                  \/ SpawnUpdaterAndQuit(exe_to_run, outcome)
       \/ /\ ~exists(fs, "upd_new") /\ ~exists(fs, "upd")
          /\ \E t \in Tids :
               /\ Unused(t)
               /\ workers' = [workers EXCEPT ![t] =
                                 [kind |-> "dl_launch", pc |-> "fetch", total |-> 0]]
          /\ UNCHANGED <<fsVars, upPc, upResult, timerQ, trusted, leftover>>
    /\ UNCHANGED <<dl, runs, wrote, mergeVars, v11Vars, callVars,
                   mmBin, settings, settingsFile, saves, status>>

\* _download_update_exe_and_launch / _download_installer_and_swap: the release
\* is fetched and the update.exe asset looked up; without it the thread returns
T_Fetch(t) ==
    /\ workers[t].kind \in {"dl_launch", "dl_swap"} /\ workers[t].pc = "fetch"
    /\ \E found \in BOOLEAN :
         workers' = [workers EXCEPT ![t] = IF found THEN [@ EXCEPT !.pc = "request"] ELSE Ended]
    /\ UNCHANGED <<fsVars, updVars, ghostVars, mergeVars, v11Vars, callVars,
                   mmBin, settings, settingsFile, saves, timerQ, status>>

\* download_url_to_path, lines 142-147: urlopen, Content-Length, open(.., "wb");
\* an exception makes the function return False
T_Request(t) ==
    /\ workers[t].kind \in {"dl_launch", "dl_swap"} /\ workers[t].pc = "request"
    /\ \E answer \in {"error", "length", "no_length"} :
         IF answer = "error" \/ Locked(fs, "upd_new")
         THEN /\ workers' = [workers EXCEPT ![t] = Ended]
              /\ UNCHANGED <<fs, wrote, leftover>>
         ELSE /\ workers' = [workers EXCEPT ![t].pc = "stream",
                                            ![t].total = IF answer = "length" THEN Size ELSE 0]
              /\ fs' = [fs EXCEPT !["upd_new"] = File("new", 0, "")]
              /\ wrote' = wrote \cup {"upd_new"}
              /\ leftover' = leftover \ {"upd_new"}
    /\ UNCHANGED <<mmRunning, updRunning, updVars, trusted, mergeVars, v11Vars, callVars,
                   mmBin, settings, settingsFile, saves, timerQ, status>>

\* lines 150-155: one block is read and written
T_Chunk(t) ==
    /\ workers[t].pc = "stream"
    /\ fs["upd_new"].ver = "new" /\ fs["upd_new"].len < Size
    /\ fs' = [fs EXCEPT !["upd_new"].len = @ + 1]
    /\ UNCHANGED <<mmRunning, updRunning, updVars, ghostVars, mergeVars, v11Vars, callVars, mmVars>>

\* the read raises: download_url_to_path returns False and the thread returns
T_Broken(t) ==
    /\ workers[t].pc = "stream"
    /\ fs["upd_new"].len < Size
    /\ workers' = [workers EXCEPT ![t] = Ended]
    /\ leftover' = leftover \cup {"upd_new"}
    /\ UNCHANGED <<fsVars, updVars, trusted, wrote, mergeVars, v11Vars, callVars,
                   mmBin, settings, settingsFile, saves, timerQ, status>>

\* resp.read returns no data, at the end of the body or when the connection
\* closed early (http.client does not raise IncompleteRead for read(amt)):
\* download_url_to_path returns True
T_Return(t) ==
    /\ workers[t].pc = "stream"
    /\ workers' = [workers EXCEPT ![t].pc = "downloaded"]
    /\ UNCHANGED <<fsVars, updVars, ghostVars, mergeVars, v11Vars, callVars,
                   mmBin, settings, settingsFile, saves, timerQ, status>>

\* _download_update_exe_and_launch, lines 711-719
T_Launch(t) ==
    /\ workers[t].kind = "dl_launch" /\ workers[t].pc = "downloaded"
    /\ ~updRunning
    /\ \E outcome \in PopenOutcomes(fs["upd_new"]) :
         \/ /\ outcome = "raise"
            /\ workers' = [workers EXCEPT ![t] = Ended]
            /\ UNCHANGED <<fsVars, upPc, upResult, timerQ, leftover>>
         \/ SpawnUpdaterAndQuit("upd_new", outcome)
    /\ UNCHANGED <<dl, runs, trusted, wrote, mergeVars, v11Vars, callVars,
                   mmBin, settings, settingsFile, saves, status>>

\* do_swap of update_installer_exe, lines 731-750.  os.remove fails on a file
\* that is held open; os.rename (Windows) fails if the new name exists and may
\* fail on a file that is held open, as update_new.exe is while a thread of
\* this process is writing it (open() shares no delete access on Windows;
\* elsewhere the rename succeeds); every failure is caught and printed
SwapRemoved(x) ==
    IF ~exists(x.f, "upd") THEN {x}
    ELSE IF ~Locked(x.f, "upd")
         THEN {[f |-> [x.f EXCEPT !["upd"] = NoFile], l |-> x.l \ {"upd"}]}
         ELSE {x} \cup
              (IF exists(x.f, "upd_old") THEN {}
               ELSE {[f |-> Rename(x.f, "upd", "upd_old"),
                      l |-> RenameLeft(x.l, "upd", "upd_old")]})
SwapRenamed(x) ==
    IF ~exists(x.f, "upd_new") \/ exists(x.f, "upd") THEN {x}
    ELSE (IF Locked(x.f, "upd_new") \/ "upd_new" \in Streaming(workers) THEN {x} ELSE {}) \cup
         {[f |-> Rename(x.f, "upd_new", "upd"), l |-> RenameLeft(x.l, "upd_new", "upd")]}
do_swap(x) == UNION {SwapRenamed(y) : y \in SwapRemoved(x)}

\* update_installer_exe, lines 728-758
MM_UpdateInstaller ==
    /\ mmRunning
    /\ \/ /\ exists(fs, "upd_new")
          /\ trusted' = trusted \cup {Use("swap", "upd_new")}
          /\ \E y \in do_swap([f |-> fs, l |-> leftover]) :
               /\ fs' = y.f
               /\ leftover' = y.l
          /\ UNCHANGED workers
       \/ /\ ~exists(fs, "upd_new")
          /\ \E t \in Tids :
               /\ Unused(t)
               /\ workers' = [workers EXCEPT ![t] =
                                 [kind |-> "dl_swap", pc |-> "fetch", total |-> 0]]
          /\ UNCHANGED <<fs, trusted, leftover>>
    /\ UNCHANGED <<mmRunning, updRunning, updVars, wrote, mergeVars, v11Vars, callVars,
                   mmBin, settings, settingsFile, saves, timerQ, status>>

\* _download_installer_and_swap, line 780: update_installer_exe is called again
T_Swap(t) ==
    /\ workers[t].kind = "dl_swap" /\ workers[t].pc = "downloaded"
    /\ \/ /\ exists(fs, "upd_new")
          /\ \E y \in do_swap([f |-> fs, l |-> leftover]) :
               /\ fs' = y.f
               /\ leftover' = y.l
          /\ workers' = [workers EXCEPT ![t] = Ended]
       \/ /\ ~exists(fs, "upd_new")
          /\ workers' = [workers EXCEPT ![t] = [@ EXCEPT !.pc = "fetch", !.total = 0]]
          /\ UNCHANGED <<fs, leftover>>
    /\ UNCHANGED <<mmRunning, updRunning, updVars, trusted, wrote, mergeVars, v11Vars, callVars,
                   mmBin, settings, settingsFile, saves, timerQ, status>>

\* ------------------------------------------------------------------------
\* Spec: an installed Mod-Manager 1.0.9, its updater, and release v1.0.10
\* ------------------------------------------------------------------------
MainTree == [EmptyTree EXCEPT ![<<"a">>] = "old"]
MainArchive == <<Member(<<"resources">>, TRUE), Member(<<"resources", "a">>, FALSE)>>

\* no replacement has been made yet
NoRep == [fn |-> "none", fault |-> "none", locked |-> FALSE,
          src0 |-> [ver |-> "none", len |-> 0], res |-> "none"]
V11Idle == rep = NoRep /\ watcher = "off" /\ polls = 0

\* no pure function has been called
NoArg == [a |-> <<>>, b |-> <<>>]
NoRet == [fn |-> "none", val |-> FALSE]
CallIdle == arg = NoArg /\ ret = NoRet

\* no merge-extract call has been made yet
NoCall == [fn |-> "none", ok |-> TRUE, fail |-> NoFail]

MergeIdle ==
    /\ tree = MainTree /\ tree0 = MainTree
    /\ arch = MainArchive
    /\ sep = "\\"
    /\ mres = NoCall

Init ==
    /\ MergeIdle
    /\ mmRunning \in BOOLEAN
    /\ \E haveUpdater \in BOOLEAN :
         fs = [p \in Files |->
                 IF p = "mm" THEN File("old", Size, IF mmRunning THEN "mm" ELSE "")
                 ELSE IF p = "upd" /\ haveUpdater THEN OldFile
                 ELSE NoFile]
    /\ updRunning = FALSE
    /\ upPc = "off" /\ upResult = "none" /\ dl = NoDl /\ runs = 0
    /\ trusted = {} /\ wrote = {} /\ leftover = {}
    /\ mmBin = "old"
    /\ settingsFile = [present |-> TRUE, version |-> SCRIPT_VERSION, last_release_tag |-> None]
    /\ settings = [version |-> SCRIPT_VERSION, last_release_tag |-> None]
    /\ saves = 0
    /\ workers = NoThreads
    /\ timerQ = <<>>
    /\ status = InitialStatus
    /\ V11Idle
    /\ CallIdle

\* the update check of a running Mod-Manager
CheckStep ==
    \/ MM_Check
    \/ UI_Apply
    \/ \E t \in Tids : Chk_FetchFailed(t) \/ Chk_Fetched(t) \/ Chk_Decide(t)

\* Spec: the updater (update.py) is run on the install directory; the
\* Mod-Manager it closes and starts checks for updates
Next ==
    \/ StartUpdater
    \/ Run_Begin \/ Run_Close \/ Run_CheckUpdateNew
    \/ Dl_Request \/ Dl_Open \/ Dl_Chunk \/ Dl_Broken \/ Dl_Return
    \/ Run_MoveOld \/ Run_RemoveOld \/ Run_Merge \/ Run_RemoveZip
    \/ Run_Shortcut \/ Run_Launch \/ Run_Destroy
    \/ CheckStep

Spec == Init /\ [][Next]_vars

\* SpecMM: a running Mod-Manager (modmanager.py) whose user checks for
\* updates, updates the installer and launches the updater
NextMM ==
    \/ CheckStep
    \/ MM_LaunchUpdate \/ MM_UpdateInstaller
    \/ \E t \in Tids :
         \/ T_Fetch(t) \/ T_Request(t) \/ T_Chunk(t) \/ T_Broken(t) \/ T_Return(t)
         \/ T_Launch(t) \/ T_Swap(t)

SpecMM == Init /\ [][NextMM]_vars

\* ------------------------------------------------------------------------
\* SpecMerge: one call of a merge-extract function on a drawn tree and archive
\* ------------------------------------------------------------------------
\* trees that exist before a call: plain files and directories two levels deep
TreeOf(top, kids) ==
    [p \in AllPaths |->
        IF p \in Paths1 THEN top[p[1]] ELSE IF p \in Paths2 THEN kids[p] ELSE "none"]

InitTrees ==
    { t \in { TreeOf(top, kids) : top \in [Names -> {"none", "dir", "old"}],
                                  kids \in [Paths2 -> {"none", "old"}] } :
        WellFormed(t) }


\* nothing else runs while a merge-extract function is examined
MainIdle ==
    /\ fs = [p \in Files |-> NoFile]
    /\ mmRunning = FALSE /\ updRunning = FALSE
    /\ upPc = "off" /\ upResult = "none" /\ dl = NoDl /\ runs = 0
    /\ trusted = {} /\ wrote = {} /\ leftover = {}
    /\ mmBin = "old"
    /\ settingsFile = NoSettingsFile
    /\ settings = [version |-> SCRIPT_VERSION, last_release_tag |-> None]
    /\ saves = 0
    /\ workers = NoThreads
    /\ timerQ = <<>>
    /\ status = InitialStatus
    /\ V11Idle

InitMerge ==
    /\ tree \in InitTrees
    /\ tree0 = tree
    /\ arch \in Archives
    /\ sep \in {"/", "\\"}
    /\ mres = NoCall
    /\ MainIdle
    /\ CallIdle

\* update.py: self.unzip_and_merge(tmp_zip, resources_path)
CallUnzipAndMerge ==
    /\ mres.fn = "none"
    /\ \E fail \in FailPoints(Len(arch)) :
         LET r == unzip_and_merge(tree, arch, sep, fail) IN
         /\ tree' = r.t
         /\ mres' = [fn |-> "unzip_and_merge", ok |-> r.ok, fail |-> fail]
    /\ UNCHANGED <<tree0, arch, sep, fsVars, updVars, ghostVars, mmVars, v11Vars, callVars>>

\* old_updater 1.1: unzip_to(res_dest, resources_folder, overwrite=True)
CallUnzipTo ==
    /\ mres.fn = "none"
    /\ \E fail \in FailPoints(Len(arch)) :
         LET r == unzip_to(tree, arch, fail) IN
         /\ tree' = r.t
         /\ mres' = [fn |-> "unzip_to", ok |-> r.ok, fail |-> fail]
    /\ UNCHANGED <<tree0, arch, sep, fsVars, updVars, ghostVars, mmVars, v11Vars, callVars>>

\* old_updater 1.2: unzip_and_merge(res_zip_path, <install>/resources)
CallUnzipAndMerge12 ==
    /\ mres.fn = "none"
    /\ \E fail \in FailPoints(Len(arch)) :
         LET r == unzip_and_merge_12(tree, arch, fail) IN
         /\ tree' = r.t
         /\ mres' = [fn |-> "unzip_and_merge_12", ok |-> r.ok, fail |-> fail]
    /\ UNCHANGED <<tree0, arch, sep, fsVars, updVars, ghostVars, mmVars, v11Vars, callVars>>

\* the function that was called is called once more on the same archive and
\* the destination as the first call left it; ret keeps the tree between
\* the two calls and whether the second call succeeded
MergeAgain ==
    /\ mres.fn # "none" /\ mres.ok /\ ret.fn = "none"
    /\ LET r == IF mres.fn = "unzip_and_merge" THEN unzip_and_merge(tree, arch, sep, NoFail)
                ELSE IF mres.fn = "unzip_to" THEN unzip_to(tree, arch, NoFail)
                ELSE unzip_and_merge_12(tree, arch, NoFail)
       IN  /\ tree' = r.t
           /\ ret' = [fn |-> "again", val |-> [t |-> tree, ok |-> r.ok]]
    /\ UNCHANGED <<tree0, arch, sep, mres, arg, fsVars, updVars, ghostVars, mmVars, v11Vars>>

NextMerge == CallUnzipAndMerge \/ CallUnzipTo \/ CallUnzipAndMerge12 \/ MergeAgain

SpecMerge == InitMerge /\ [][NextMerge]_vars

\* the destination paths an archive's entries stand for: the entry's own
\* relative path and, for an entry under a top-level resources/ wrapper, the
\* path with the wrapper removed
StripWrapper(c) ==
    IF Len(c) > 0 /\ Lower(c[1]) = "resources" THEN Tail(c) ELSE c
EntryPaths(a) ==
    {a[i].comps : i \in 1..Len(a)} \cup {StripWrapper(a[i].comps) : i \in 1..Len(a)}

Called(fn) == mres.fn = fn
Failed == mres.fn # "none" /\ ~mres.ok
Succeeded == mres.fn # "none" /\ mres.ok

\* C4: a merge-extract that fails (corrupt archive, or an error at the k-th
\* entry) leaves the destination tree exactly as it was before the call
C4_FailedMergeLeavesDestUntouched == Failed => tree = tree0

\* C5: after a successful merge-extract (update.py unzip_and_merge, 1.2
\* unzip_and_merge) every file of the destination whose path is not an entry
\* of the archive still exists with its old content
C5_Preserved ==
    (Succeeded /\ (Called("unzip_and_merge") \/ Called("unzip_and_merge_12")))
        => \A p \in AllPaths :
              (IsFile(tree0, p) /\ p \notin EntryPaths(arch)) => tree[p] = tree0[p]

\* C5 witness: a successful merge into a directory that the archive contains
\* and that holds a file the archive does not have
C5_Witness ==
    /\ Succeeded /\ (Called("unzip_and_merge") \/ Called("unzip_and_merge_12"))
    /\ tree # tree0
    /\ \E p \in Paths2 :
          /\ IsFile(tree0, p) /\ p \notin EntryPaths(arch)
          /\ \E i \in 1..Len(arch) : IsPrefix(Parent(p), arch[i].comps)

\* ------------------------------------------------------------------------
\* Properties of the updater run (Spec)
\* ------------------------------------------------------------------------
\* C1: in every state of an update, intermediate or left by a failure,
\* modmanager.exe holds the complete old or the complete new content; it is
\* never absent, empty or partly written
C1_DestAlwaysComplete ==
    /\ fs["mm"].ver \in {"old", "new"}
    /\ fs["mm"].len = Size

\* C8: no download opens a live install target (modmanager.exe, update.exe)
\* for writing; every download goes to a temporary path
C8_DownloadsAvoidLiveTargets == wrote \cap LiveTargets = {}

\* C10: once the updater has installed release T and started the new
\* executable, the check of the new executable against T does not offer the
\* update again
C10_NewBinaryUpToDate ==
    (upResult = "done" /\ mmRunning /\ mmBin = "new")
        => /\ ~CheckSaysNewer(ReleaseTag)
           /\ status.text # "Update available (v1.0.10)"

\* ------------------------------------------------------------------------
\* Properties of Mod-Manager (SpecMM)
\* ------------------------------------------------------------------------
\* C6: when download_url_to_path returns True for a response that carried a
\* Content-Length, the file holds that many bytes
C6_SuccessMeansFullLength ==
    [][\A t \in Tids :
         (workers[t].pc = "stream" /\ workers'[t].pc = "downloaded"
            /\ workers[t].total = Size)
         => fs'["upd_new"].len = workers[t].total]_vars

\* C7: a file that a failed or interrupted download left behind is never
\* launched, swapped into place or taken as already downloaded
C7_NoPartialFileUsed == \A u \in trusted : ~u.partial

\* C9: a check whose fetch of the release fails ends with "Unable to check"
\* and leaves the settings, in memory and in settings.json, as they were; the
\* file is not written
C9_FailedFetchLeavesSettings ==
    [][\A t \in Tids :
         (workers[t].kind = "check" /\ workers[t].pc = "fetch"
            /\ workers'[t] = Ended)
         => /\ settings' = settings
            /\ settingsFile' = settingsFile
            /\ saves' = saves
            /\ timerQ' = Append(timerQ, [dot |-> "red", text |-> "Unable to check"])]_vars

\* a failed check is shown after an earlier check stored the tag of the release
C9_Witness ==
    /\ status.text = "Unable to check"
    /\ settingsFile.last_release_tag = ReleaseTag
    /\ saves = 1


\* ------------------------------------------------------------------------
\* old_updater 1.1: atomic_replace, task_update_exe and the replacement script
\* ------------------------------------------------------------------------
\* the I/O error, if any, that a replacement meets: while the staging copy is
\* written, at os.remove, at os.rename, or while shutil.copy2 writes
Faults == {"none", "stage", "remove", "rename", "copy"}

Content(x) == [ver |-> x.ver, len |-> x.len]

\* shutil.copy2(src, dst): dst is opened for writing, which a file held open
\* refuses; an error while writing leaves dst short
copy2_file(f, src, dst, broken) ==
    IF Locked(f, dst) THEN [f |-> f, ok |-> FALSE]
    ELSE IF broken THEN [f |-> [f EXCEPT ![dst] = File(f[src].ver, 0, "")], ok |-> FALSE]
    ELSE [f |-> [f EXCEPT ![dst] = File(f[src].ver, f[src].len, "")], ok |-> TRUE]

\* os.remove(p)
remove_file(f, p, broken) ==
    IF Locked(f, p) \/ broken THEN [f |-> f, ok |-> FALSE]
    ELSE [f |-> [f EXCEPT ![p] = NoFile], ok |-> TRUE]

\* a move that opens the destination and leaves it empty
shutil_move_truncating(f, src, dst, fault) ==
    [f |-> [f EXCEPT ![dst] = File(f[src].ver, 0, ""), ![src] = NoFile], ok |-> TRUE]

\* shutil.move(src, dst): os.rename, which on Windows fails if dst exists, and
\* on OSError copy2 followed by os.unlink(src)
shutil_move(f, src, dst, fault) ==
    IF ~exists(f, dst) /\ ~Locked(f, src) /\ fault # "rename"
    THEN [f |-> Rename(f, src, dst), ok |-> TRUE]
    ELSE LET c == copy2_file(f, src, dst, fault = "copy") IN
         IF c.ok THEN remove_file(c.f, src, FALSE) ELSE c

\* atomic_replace(src, dst), lines 130-143
atomic_replace(f, src, dst, fault) ==
    LET rm == IF exists(f, dst) THEN remove_file(f, dst, fault = "remove")
              ELSE [f |-> f, ok |-> TRUE]
        mv == IF rm.ok THEN shutil_move(rm.f, src, dst, fault) ELSE rm
    IN  IF mv.ok THEN mv
        ELSE LET c == copy2_file(mv.f, src, dst, fault = "copy") IN
             IF c.ok THEN remove_file(c.f, src, FALSE) ELSE c

\* finally: shutil.rmtree(tempdir, ignore_errors=True)
rmtree_tempdir(f) == [f EXCEPT !["tmp_mm"] = NoFile, !["tmp_upd"] = NoFile]

\* an exception leaves task_update_exe; WorkerThread.run reports the failure
V11_Raise(f) ==
    /\ fs' = rmtree_tempdir(f)
    /\ upPc' = "v11_idle"
    /\ upResult' = "failed"

v11Frame == <<dl, trusted, wrote, mergeVars, saves, callVars>>
v11MM == <<mmRunning, mmBin, settings, settingsFile, workers, timerQ, status, leftover>>

\* atomic_replace is called on a downloaded file and modmanager.exe
CallAtomicReplace ==
    /\ upPc = "v11_idle" /\ runs < MaxRuns
    /\ runs' = runs + 1
    /\ \E n \in 0..Size, fault \in Faults \ {"stage"} :
         LET f0 == [fs EXCEPT !["tmp_mm"] = File("new", n, "")]
             r == atomic_replace(f0, "tmp_mm", "mm", fault)
         IN  /\ fs' = rmtree_tempdir(r.f)
             /\ rep' = [fn |-> "atomic_replace", fault |-> fault,
                        locked |-> Locked(fs, "mm"), src0 |-> Content(f0["tmp_mm"]),
                        res |-> IF r.ok THEN "committed" ELSE "failed"]
    /\ UNCHANGED <<updRunning, upPc, upResult, watcher, v11Frame, polls, v11MM>>

\* start_worker(task_update_exe), lines 405-408: the release is fetched
V11_Start ==
    /\ upPc = "v11_idle" /\ runs < MaxRuns /\ watcher = "off"
    /\ runs' = runs + 1
    /\ rep' = NoRep
    /\ \E fetched \in BOOLEAN :
         IF fetched THEN /\ upPc' = "v11_download"
                         /\ upResult' = "none"
                         /\ UNCHANGED fs
         ELSE V11_Raise(fs)
    /\ UNCHANGED <<updRunning, watcher, v11Frame, polls, v11MM>>

\* the asset was not found in the release: no replacement was begun
AssetNotFound == [NoRep EXCEPT !.fn = "download", !.fault = "no_asset", !.res = "failed"]

\* a download step that clears the destination before it looks for the asset
V11_DownloadMod_Clearing ==
    /\ upPc = "v11_download"
    /\ \E n \in 0..Size, outcome \in {"no_asset", "error", "ok"} :
         IF outcome = "ok"
         THEN /\ fs' = [fs EXCEPT !["tmp_mm"] = File("new", n, "")]
              /\ upPc' = "v11_kill"
              /\ UNCHANGED <<upResult, rep>>
         ELSE IF outcome = "no_asset"
         THEN /\ V11_Raise(remove_file(fs, "mm", FALSE).f)
              /\ rep' = AssetNotFound
         ELSE /\ V11_Raise(fs)
              /\ UNCHANGED rep
    /\ UNCHANGED <<updRunning, runs, watcher, v11Frame, polls, v11MM>>

\* lines 410-412, _download_asset_by_expected: find_asset_by_name returns None
\* and FileNotFoundError is raised, or modmanager.exe is downloaded into the
\* temporary directory; download_file returns whatever the stream delivered
V11_DownloadMod ==
    /\ upPc = "v11_download"
    /\ \E n \in 0..Size, outcome \in {"no_asset", "error", "ok"} :
         IF outcome = "ok"
         THEN /\ fs' = [fs EXCEPT !["tmp_mm"] = File("new", n, "")]
              /\ upPc' = "v11_kill"
              /\ UNCHANGED <<upResult, rep>>
         ELSE IF outcome = "no_asset"
         THEN /\ V11_Raise(fs)
              /\ rep' = AssetNotFound
         ELSE /\ V11_Raise(fs)
              /\ UNCHANGED rep
    /\ UNCHANGED <<updRunning, runs, watcher, v11Frame, polls, v11MM>>

\* the iterations of the wait loop, range(12)
PollCount == 12

\* lines 414-422: the destination must exist; if is_modmanager_running() the
\* process is sent a kill (taskkill, pkill), whose outcome is not looked at
V11_Kill ==
    /\ upPc = "v11_kill"
    /\ IF ~exists(fs, "mm")
       THEN /\ V11_Raise(fs)
            /\ UNCHANGED polls
       ELSE /\ upPc' = IF mmRunning THEN "v11_wait" ELSE "v11_stage"
            /\ polls' = 0
            /\ UNCHANGED <<fs, upResult>>
    /\ UNCHANGED <<updRunning, runs, rep, watcher, v11Frame, v11MM>>

\* lines 423-426, one turn of `for i in range(12)`: the loop is left when
\* the process is gone, or after the twelfth sleep whether or not it is gone;
\* during a sleep of 0.5 s the killed process may end
V11_Poll ==
    /\ upPc = "v11_wait"
    /\ IF polls = PollCount \/ ~mmRunning
       THEN /\ upPc' = "v11_stage"
            /\ UNCHANGED <<fs, polls, mmRunning, workers, timerQ, leftover>>
       ELSE /\ polls' = polls + 1
            /\ UNCHANGED upPc
            /\ \E ended \in BOOLEAN :
                 IF ended THEN MMExit
                 ELSE UNCHANGED <<fs, mmRunning, workers, timerQ, leftover>>
    /\ UNCHANGED <<updRunning, upResult, runs, rep, watcher, v11Frame,
                   mmBin, settings, settingsFile, status>>

\* lines 430-436: an old staging file is removed and the download is copied
\* to modmanager.exe.new
V11_Stage ==
    /\ upPc = "v11_stage"
    /\ \E fault \in Faults :
         LET f1 == remove_file(fs, "mm.new", FALSE).f
             c == copy2_file(f1, "tmp_mm", "mm.new", fault = "stage")
             r == [fn |-> "task", fault |-> fault, locked |-> Locked(fs, "mm"),
                   src0 |-> Content(fs["tmp_mm"]), res |-> "pending"]
         IN  IF c.ok THEN /\ fs' = c.f
                          /\ rep' = r
                          /\ upPc' = "v11_remove"
                          /\ UNCHANGED upResult
             ELSE /\ V11_Raise(c.f)
                  /\ rep' = [r EXCEPT !.res = "failed"]
    /\ UNCHANGED <<updRunning, runs, watcher, v11Frame, polls, v11MM>>

\* lines 438-442: os.remove(dest_mod), an exception is passed over
V11_Remove ==
    /\ upPc = "v11_remove"
    /\ fs' = IF exists(fs, "mm") THEN remove_file(fs, "mm", rep.fault = "remove").f ELSE fs
    /\ upPc' = "v11_move"
    /\ UNCHANGED <<updRunning, upResult, runs, rep, watcher, v11Frame, polls, v11MM>>

\* line 443: shutil.move(tmp_target, dest_mod)
V11_Move ==
    /\ upPc = "v11_move"
    /\ LET r == shutil_move(fs, "mm.new", "mm", rep.fault) IN
       IF r.ok THEN /\ fs' = r.f
                    /\ rep' = [rep EXCEPT !.res = "committed"]
                    /\ upPc' = "v11_updater"
                    /\ UNCHANGED upResult
       ELSE /\ V11_Raise(r.f)
            /\ rep' = [rep EXCEPT !.res = "failed"]
    /\ UNCHANGED <<updRunning, runs, watcher, v11Frame, polls, v11MM>>

\* lines 445-462: if the release has update.exe it is downloaded; an installed
\* update.exe is replaced by the script, after which the updater exits;
\* without an installed one the download is copied into place
V11_Updater ==
    /\ upPc = "v11_updater"
    /\ \E asset \in BOOLEAN, ok \in BOOLEAN, n \in 0..Size :
         IF ~asset
         THEN /\ upPc' = "v11_launch"
              /\ UNCHANGED <<fs, upResult, watcher>>
         ELSE IF ~ok
         THEN /\ V11_Raise(fs)
              /\ UNCHANGED watcher
         ELSE LET f1 == [fs EXCEPT !["tmp_upd"] = File("new", n, "")]
                  dst == IF exists(fs, "upd") THEN "upd.new" ELSE "upd"
                  c == copy2_file(f1, "tmp_upd", dst, FALSE)
              IN  IF ~c.ok
                  THEN /\ V11_Raise(c.f)
                       /\ UNCHANGED watcher
                  ELSE IF exists(fs, "upd")
                  THEN /\ fs' = [c.f EXCEPT !["script"] = File("new", 1, "")]
                       /\ watcher' = "loop"
                       /\ upPc' = "v11_exiting"
                       /\ upResult' = "deferred"
                  ELSE /\ fs' = c.f
                       /\ upPc' = "v11_launch"
                       /\ UNCHANGED <<upResult, watcher>>
    /\ UNCHANGED <<updRunning, runs, rep, v11Frame, polls, v11MM>>

\* lines 463-465: run_and_detach(dest_mod)
V11_Launch ==
    /\ upPc = "v11_launch"
    /\ \E outcome \in PopenOutcomes(fs["mm"]) :
         \/ /\ outcome = "raise"
            /\ V11_Raise(fs)
            /\ UNCHANGED <<mmRunning, mmBin, settings, settingsFile, workers, timerQ, status>>
         \/ /\ outcome = "started" /\ ~mmRunning
            /\ MMStart(fs["mm"].ver)
            /\ fs' = rmtree_tempdir(Hold(fs, "mm", "mm"))
            /\ upPc' = "v11_idle"
            /\ upResult' = "done"
         \/ /\ \/ outcome = "died"
               \/ outcome = "started" /\ mmRunning
            /\ fs' = rmtree_tempdir(fs)
            /\ upPc' = "v11_idle"
            /\ upResult' = "done"
            /\ UNCHANGED <<mmRunning, mmBin, settings, settingsFile, workers, timerQ, status>>
    /\ UNCHANGED <<updRunning, runs, rep, watcher, leftover, v11Frame, polls>>

\* lines 467-468: sys.exit(0) raises SystemExit in the worker thread and the
\* finally of task_update_exe removes the temporary directory, while the main
\* thread, which QApplication.quit has released from its event loop, ends
\* the process
V11_Finally ==
    /\ upPc = "v11_exiting"
    /\ exists(fs, "tmp_mm") \/ exists(fs, "tmp_upd")
    /\ fs' = rmtree_tempdir(fs)
    /\ UNCHANGED <<updRunning, upPc, upResult, runs, rep, watcher, v11Frame, polls, v11MM>>

\* _schedule_replace_and_exit, lines 531-533: QApplication.quit and sys.exit
V11_Exit ==
    /\ upPc = "v11_exiting"
    /\ upPc' = "off"
    /\ updRunning' = FALSE
    /\ fs' = Release(fs, "upd")
    /\ UNCHANGED <<upResult, runs, rep, watcher, v11Frame, polls, v11MM>>

\* a script that goes on to the move whether or not the delete worked
W_Del_NoRetry ==
    /\ watcher = "loop"
    /\ fs' = IF Locked(fs, "upd") THEN fs ELSE [fs EXCEPT !["upd"] = NoFile]
    /\ watcher' = "move"
    /\ UNCHANGED <<updRunning, upPc, upResult, runs, rep, v11Frame, polls, v11MM>>

\* the script, lines 512-514 (sh: 538-539): del target, then the test of
\* whether it still exists; a file that is held open is not deleted
W_Del ==
    /\ watcher = "loop"
    /\ IF Locked(fs, "upd")
       THEN /\ watcher' = "sleep"
            /\ UNCHANGED fs
       ELSE /\ fs' = [fs EXCEPT !["upd"] = NoFile]
            /\ watcher' = "move"
    /\ UNCHANGED <<updRunning, upPc, upResult, runs, rep, v11Frame, polls, v11MM>>

\* the script, lines 515-516 (sh: 540): timeout /t 1, goto loop
W_Sleep ==
    /\ watcher = "sleep"
    /\ watcher' = "loop"
    /\ UNCHANGED <<fs, updRunning, upPc, upResult, runs, rep, v11Frame, polls, v11MM>>

\* the script, line 517: move /Y new_file_path target_path
W_Move ==
    /\ watcher = "move"
    /\ fs' = IF exists(fs, "upd.new") THEN Rename(fs, "upd.new", "upd") ELSE fs
    /\ watcher' = "unlink"
    /\ UNCHANGED <<updRunning, upPc, upResult, runs, rep, v11Frame, polls, v11MM>>

\* the script, line 518 (sh: 543): del "%~f0" / rm -- "$0"; the interpreter
\* does not hold the script file open between its lines
W_Unlink ==
    /\ watcher = "unlink"
    /\ fs' = remove_file(fs, "script", FALSE).f
    /\ watcher' = "done"
    /\ UNCHANGED <<updRunning, upPc, upResult, runs, rep, v11Frame, polls, v11MM>>

\* SpecV11: old_updater 1.1 runs on an install directory with modmanager.exe;
\* Mod-Manager may be running, and the updater may be the installed update.exe.
\* On Windows (os.name "nt") the executable of a running process is locked,
\* on the other systems the updater supports it is not.  update.exe may also
\* be held by a second updater window that the user leaves open
InitV11 ==
    /\ MergeIdle
    /\ mmRunning \in BOOLEAN
    /\ \E updater \in {"none", "installed", "running", "second"},
          os_name \in {"nt", "posix"} :
         fs = [p \in Files |->
                 IF p = "mm"
                 THEN File("old", Size, IF mmRunning /\ os_name = "nt" THEN "mm" ELSE "")
                 ELSE IF p = "upd" /\ updater # "none"
                      THEN File("old", Size,
                                IF updater = "running" THEN "upd"
                                ELSE IF updater = "second" THEN "upd2" ELSE "")
                 ELSE NoFile]
    /\ updRunning = TRUE
    /\ upPc = "v11_idle" /\ upResult = "none" /\ dl = NoDl /\ runs = 0
    /\ trusted = {} /\ wrote = {} /\ leftover = {}
    /\ mmBin = "old"
    /\ settingsFile = [present |-> TRUE, version |-> SCRIPT_VERSION, last_release_tag |-> None]
    /\ settings = [version |-> SCRIPT_VERSION, last_release_tag |-> None]
    /\ saves = 0
    /\ workers = NoThreads
    /\ timerQ = <<>>
    /\ status = InitialStatus
    /\ V11Idle
    /\ CallIdle

NextV11 ==
    \/ CallAtomicReplace
    \/ V11_Start \/ V11_DownloadMod \/ V11_Kill \/ V11_Poll
    \/ V11_Stage \/ V11_Remove \/ V11_Move
    \/ V11_Updater \/ V11_Launch \/ V11_Finally \/ V11_Exit
    \/ W_Del \/ W_Sleep \/ W_Move \/ W_Unlink

SpecV11 == InitV11 /\ [][NextV11]_vars

\* SpecV11Live: the same, where the worker thread of a started task, the
\* script and the exiting updater, once they can take a step, take it; the
\* user, who starts the tasks, need not do anything
SpecV11Live ==
    /\ InitV11 /\ [][NextV11]_vars
    /\ WF_vars(V11_DownloadMod) /\ WF_vars(V11_Kill) /\ WF_vars(V11_Poll)
    /\ WF_vars(V11_Stage) /\ WF_vars(V11_Remove) /\ WF_vars(V11_Move)
    /\ WF_vars(V11_Updater) /\ WF_vars(V11_Launch)
    /\ WF_vars(V11_Finally) /\ WF_vars(V11_Exit)
    /\ WF_vars(W_Del) /\ WF_vars(W_Sleep) /\ WF_vars(W_Move) /\ WF_vars(W_Unlink)

\* C2: a replacement of modmanager.exe that finds it locked, and meets no
\* I/O error, does not fail: the new content is staged at modmanager.exe.new,
\* the script is launched and the result is deferred
C2_LockedDestIsDeferred ==
    (rep.fn = "task" /\ rep.locked /\ rep.fault = "none"
       /\ rep.res \notin {"none", "pending"})
        => /\ rep.res = "deferred"
           /\ watcher # "off"
           /\ upResult # "failed"

\* C3: a replacement that finds the destination not locked and meets no I/O
\* error reports success, and modmanager.exe then has the content the source
\* had before the call, in full
C3_UnlockedReplaceCommits ==
    (rep.fn \in {"task", "atomic_replace"} /\ ~rep.locked /\ rep.fault = "none"
       /\ rep.res # "pending")
        => /\ rep.res = "committed"
           /\ Content(fs["mm"]) = rep.src0

\* the task has replaced an unlocked modmanager.exe by a complete download
C3_Witness ==
    /\ rep.fn = "task" /\ ~rep.locked /\ rep.fault = "none"
    /\ rep.res = "committed"
    /\ rep.src0 = [ver |-> "new", len |-> Size]
    /\ Content(fs["mm"]) = rep.src0


\* ------------------------------------------------------------------------
\* SpecVer: the version functions called on drawn strings
\* ------------------------------------------------------------------------
\* longest generated version string
MaxLen == 3

Chars == {"0", "1", ".", "v", " "}
V_1_2 == <<"1", ".", "2">>
V_1_2_0 == <<"1", ".", "2", ".", "0">>
V_1_2_3 == <<"1", ".", "2", ".", "3">>
Examples == {V_1_0_9, V_1_0_10, Tag_v1_0_10, V_1_2, V_1_2_0, V_1_2_3,
             <<"v">> \o V_1_2_3, <<"v", "v", "1">>,
             <<Sup2>>, <<"1", ".", Sup2>>}
VerStrings == SeqsUpTo(Chars, MaxLen) \cup Examples

\* ---- old_versions 1.0.3: compare_versions ----
\* str.strip('v'): every leading and trailing v is removed
RECURSIVE LStripV(_)
LStripV(s) == IF s # <<>> /\ s[1] = "v" THEN LStripV(Tail(s)) ELSE s
RECURSIVE RStripV(_)
RStripV(s) ==
    IF s # <<>> /\ s[Len(s)] = "v" THEN RStripV(SubSeq(s, 1, Len(s) - 1)) ELSE s

\* [int(x) for x in s.strip('v').split('.')]; int() accepts surrounding
\* whitespace and raises ValueError on anything but digits
IntList(s) ==
    LET parts == SplitDots(RStripV(LStripV(s)), <<>>) IN
    IF \A i \in 1..Len(parts) : IsDigitStr(Strip(parts[i]))
    THEN [ok |-> TRUE, list |-> [i \in 1..Len(parts) |-> IntOf(Strip(parts[i]), 0)]]
    ELSE [ok |-> FALSE, list |-> <<>>]

\* compare_versions(current, latest), lines 408-414
compare_versions(current, latest) ==
    IF current = None \/ latest = None THEN FALSE
    ELSE IF ~IntList(current).ok \/ ~IntList(latest).ok THEN FALSE
    ELSE ListLess(IntList(current).list, IntList(latest).list)

pureFrame == <<mergeVars, fsVars, updVars, ghostVars, mmVars, v11Vars>>

InitVer ==
    /\ MergeIdle
    /\ MainIdle
    /\ arg \in [a : VerStrings \cup {None}, b : VerStrings \cup {None}]
    /\ ret = NoRet

CallSemverNormalize ==
    /\ ret.fn = "none"
    /\ ret' = [fn |-> "semver_normalize", val |-> semver_normalize(arg.a)]
    /\ UNCHANGED <<arg, pureFrame>>

CallIsVersionNewer ==
    /\ ret.fn = "none"
    /\ ret' = [fn |-> "is_version_newer", val |-> is_version_newer(arg.a, arg.b)]
    /\ UNCHANGED <<arg, pureFrame>>

CallCompareVersions ==
    /\ ret.fn = "none"
    /\ ret' = [fn |-> "compare_versions", val |-> compare_versions(arg.a, arg.b)]
    /\ UNCHANGED <<arg, pureFrame>>

NextVer == CallSemverNormalize \/ CallIsVersionNewer \/ CallCompareVersions

SpecVer == InitVer /\ [][NextVer]_vars

\* a dot-separated sequence of non-negative integers
IsPlain(s) ==
    /\ s # None
    /\ \A i \in 1..Len(SplitDots(s, <<>>)) : IsDigitStr(SplitDots(s, <<>>)[i])
PlainInts(s) ==
    LET parts == SplitDots(s, <<>>) IN [i \in 1..Len(parts) |-> IntOf(parts[i], 0)]
Max(m, n) == IF m >= n THEN m ELSE n
\* the sequence with zeros added on the right up to length n
Padded(l, n) == [i \in 1..n |-> IF i <= Len(l) THEN l[i] ELSE 0]
\* component-wise numeric comparison with zero-padding
PaddedNewer(installed, candidate) ==
    LET i == PlainInts(installed)
        c == PlainInts(candidate)
        n == Max(Len(i), Len(c))
    IN  ListLess(Padded(i, n), Padded(c, n))

\* C12: for two versions that are dot-separated sequences of non-negative
\* integers, is_version_newer and compare_versions return true exactly when
\* the candidate is greater under numeric comparison with zero-padding
C12_NumericZeroPadded ==
    (ret.fn \in {"is_version_newer", "compare_versions"}
       /\ IsPlain(arg.a) /\ IsPlain(arg.b))
        => ret.val = PaddedNewer(arg.a, arg.b)

\* C13: when either string is not a version, is_version_newer returns true
\* exactly when the candidate is non-empty and differs from the installed one
C13_FailOpen ==
    (ret.fn = "is_version_newer" /\ arg.a # None /\ arg.b # None
       /\ (~PkgParse(arg.a).ok \/ ~PkgParse(arg.b).ok))
        => ret.val = (arg.b # <<>> /\ arg.b # arg.a)

\* what C14 expects of a tag: None and the empty tag come back as they are,
\* any other tag without surrounding blanks and without one leading v or V
NormalizedTag(tag) ==
    IF tag = None \/ tag = <<>> THEN tag
    ELSE LET t == Strip(tag) IN
         IF t # <<>> /\ t[1] \in {"v", "V"} THEN Tail(t) ELSE t

\* C14: semver_normalize strips surrounding whitespace and one leading v or
\* V, returns None for None and the empty tag unchanged
C14_NormalizeOnlyStrips ==
    ret.fn = "semver_normalize" => ret.val = NormalizedTag(arg.a)


\* ------------------------------------------------------------------------
\* SpecCheck: one update check on a drawn installed version and release
\* ------------------------------------------------------------------------
\* the "version" of settings.json: the constant the program writes there,
\* or what the file holds after it was edited
InstalledVersions == {SCRIPT_VERSION, NewScriptVersion, V_1_2, <<>>, <<" ">>, <<"v">>}
\* the "name" of a release
ReleaseNames == {None, <<>>, Tag_v1_0_10, V_1_0_9}

\* Mod-Manager runs with the settings of its file; arg holds tag_name and
\* name of the release JSON that the fetch returns
InitCheck ==
    /\ MergeIdle
    /\ fs = [p \in Files |-> IF p = "mm" THEN File("old", Size, "mm") ELSE NoFile]
    /\ mmRunning = TRUE /\ updRunning = FALSE
    /\ upPc = "off" /\ upResult = "none" /\ dl = NoDl /\ runs = 0
    /\ trusted = {} /\ wrote = {} /\ leftover = {}
    /\ mmBin = "old"
    /\ \E v \in InstalledVersions :
         /\ settingsFile = [present |-> TRUE, version |-> v, last_release_tag |-> None]
         /\ settings = [version |-> v, last_release_tag |-> None]
    /\ saves = 0
    /\ workers = NoThreads
    /\ timerQ = <<>>
    /\ status = InitialStatus
    /\ V11Idle
    /\ arg \in [a : VerStrings \cup {None}, b : ReleaseNames]
    /\ ret = NoRet

\* _check_updates_and_update_ui, lines 625-636, on the fetched release
CallCheck ==
    /\ ret.fn = "none"
    /\ Decide(TagOf(arg.a, arg.b))
    /\ ret' = [fn |-> "check", val |-> TRUE]
    /\ UNCHANGED <<arg, fsVars, updVars, ghostVars, mergeVars, v11Vars,
                   mmBin, workers, status>>

\* the event loop shows the posted status
CheckApply ==
    /\ ret.fn = "check"
    /\ UI_Apply

NextCheck == CallCheck \/ CheckApply

SpecCheck == InitCheck /\ [][NextCheck]_vars

\* the check has run and its status is on the screen
Reported == ret.fn = "check" /\ timerQ = <<>>
\* the tag as C11 takes it: tag_name, or name when tag_name is missing
ClaimedTag == IF arg.a = None THEN arg.b ELSE arg.a
IsNewerNormalized(tag) ==
    is_version_newer(semver_normalize(settings.version), semver_normalize(tag))
ReportsFor(newer, tag) ==
    IF newer THEN status = [dot |-> "green", text |-> AvailableText(tag)]
    ELSE status = [dot |-> "red", text |-> "Up to date"]

MaxAssets == 3
MaxName == 2

\* names are written with u (the expected name "update.exe" is <<"u">>), its
\* upper case U and another character
NameChars == {"u", "U", "x"}
AssetNames == SeqsUpTo(NameChars, MaxName)
EXPECTED_UPDATE_EXE_NAME == <<"u">>

\* str.lower()
LowerStr(n) == [i \in 1..Len(n) |-> IF n[i] = "U" THEN "u" ELSE n[i]]
\* x in n
Contains(n, x) == \E i \in 0..(Len(n) - Len(x)) : SubSeq(n, i + 1, i + Len(x)) = x

\* the first index of l from which on the predicate holds, 0 if none
FirstIndex(l, P(_)) ==
    IF \E i \in 1..Len(l) : P(l[i])
    THEN CHOOSE i \in 1..Len(l) : P(l[i]) /\ \A j \in 1..(i - 1) : ~P(l[j])
    ELSE 0

\* old_updater 1.1 find_asset_by_name: the position of the returned asset,
\* 0 for None
find_asset_by_name(assets, expected_name) ==
    LET exp == LowerStr(expected_name)
        IsExact(a) == LowerStr(a) = exp
        Has(a) == Contains(LowerStr(a), exp)
    IN  IF FirstIndex(assets, IsExact) # 0 THEN FirstIndex(assets, IsExact)
        ELSE FirstIndex(assets, Has)

\* modmanager.py, the loop of lines 697-700 and 767-770: the position of the
\* asset whose URL is taken, 0 when download_url stays None
update_exe_lookup(assets) ==
    LET IsExact(a) == LowerStr(a) = LowerStr(EXPECTED_UPDATE_EXE_NAME)
    IN  FirstIndex(assets, IsExact)

InitAsset ==
    /\ MergeIdle
    /\ MainIdle
    /\ arg \in [a : SeqsUpTo(AssetNames, MaxAssets), b : {EXPECTED_UPDATE_EXE_NAME}]
    /\ ret = NoRet

CallFindAssetByName ==
    /\ ret.fn = "none"
    /\ ret' = [fn |-> "find_asset_by_name", val |-> find_asset_by_name(arg.a, arg.b)]
    /\ UNCHANGED <<arg, pureFrame>>

CallUpdateExeLookup ==
    /\ ret.fn = "none"
    /\ ret' = [fn |-> "update_exe_lookup", val |-> update_exe_lookup(arg.a)]
    /\ UNCHANGED <<arg, pureFrame>>

NextAsset == CallFindAssetByName \/ CallUpdateExeLookup

SpecAsset == InitAsset /\ [][NextAsset]_vars

\* the asset C15 expects at position i (0: asset not found)
Resolves(assets, expected, i) ==
    LET exp == LowerStr(expected)
        exact == {k \in 1..Len(assets) : LowerStr(assets[k]) = exp}
        having == {k \in 1..Len(assets) : Contains(LowerStr(assets[k]), exp)}
    IN  IF exact # {} THEN i \in exact
        ELSE IF having # {} THEN i \in having /\ \A k \in having : i <= k
        ELSE i = 0

\* C15: every asset lookup returns an asset whose name equals the expected
\* name case-insensitively if there is one anywhere in the list, else the
\* first asset whose name contains the expected name, else nothing
C15_ExactThenSubstring ==
    ret.fn \in {"find_asset_by_name", "update_exe_lookup"}
        => Resolves(arg.a, arg.b, ret.val)


\* ------------------------------------------------------------------------
\* Workflows of Mod-Manager and of the updater
\* ------------------------------------------------------------------------
\* the worker threads of Mod-Manager that run a check or an update
InFlight == {t \in Tids : workers[t] \notin {Free, Ended}}

\* C16: at most one check or update workflow is in flight at any time; a
\* request that arrives while a worker runs never runs concurrently with it
C16_OneWorkflowInFlight == Cardinality(InFlight) <= 1


\* the positions of update.py run at which resources.zip, the last asset,
\* has not been downloaded yet
BeforeAllDownloaded == {"close", "chk_upd", "dl_upd", "mv_old", "dl_mm", "rm_old", "dl_zip"}
SameContent(p) == fs'[p].ver = fs[p].ver /\ fs'[p].len = fs[p].len

\* C17: until every asset of the workflow has been downloaded, the running
\* Mod-Manager is not terminated and no install target is written, renamed
\* or removed
C17_DownloadBeforeQuiesceAndCommit ==
    [][(upPc \in BeforeAllDownloaded)
         => ((mmRunning => mmRunning') /\ (\A p \in LiveTargets : SameContent(p)))]_vars


C19_ReplacedOnlyWhenGone ==
    (rep.fn = "task" /\ rep.res = "committed" /\ upPc = "v11_updater") => ~mmRunning


\* C20: the retry loop of the script that replaces update.exe ends in every
\* execution: when the file stays locked the loop is left after a timeout
C20_RetryLoopEnds == (watcher = "loop") ~> (watcher \notin {"loop", "sleep"})


\* ------------------------------------------------------------------------
\* Properties of the replacement, the merge and the workflows (continued)
\* ------------------------------------------------------------------------
\* C21: a replacement whose os.remove or os.rename fails for a reason other
\* than a lock on the destination is reported as failed at once; it is not
\* carried out in-process by another method
C21_OtherFailureIsFatal ==
    (rep.fn \in {"task", "atomic_replace"} /\ ~rep.locked
       /\ rep.fault \in {"remove", "rename"} /\ rep.res \notin {"none", "pending"})
        => rep.res = "failed"


\* C22: merge-extract is idempotent: a second merge of the same archive into
\* the destination succeeds and leaves the tree, paths and contents, as the
\* first merge left it
C22_MergeIdempotent ==
    ret.fn = "again" => (ret.val.ok /\ tree = ret.val.t)

\* an archive of two entries was merged twice by update.py into a tree that
\* the first merge changed
C22_Witness ==
    /\ ret.fn = "again" /\ Called("unzip_and_merge")
    /\ Len(arch) >= 2
    /\ ret.val.t # tree0
    /\ \E p \in AllPaths : IsFile(tree0, p) /\ tree[p] = "new"


\* every entry of the archive lies under a top-level resources/ directory
Wrapped(a) == a # <<>> /\ \A i \in 1..Len(a) : Lower(a[i].comps[1]) = "resources"
\* the paths of the wrapper's children in the destination
StrippedTargets(a) == {Tail(a[i].comps) : i \in 1..Len(a)} \ {Root}

\* C23: after a successful merge of an archive whose entries all lie under
\* resources/, every child of the wrapper is in the destination at its path
\* without the wrapper, and the destination has gained no nested
\* resources/ copy of it, whichever separator the platform uses
C23_WrapperStripped ==
    (Succeeded /\ ret.fn = "none" /\ Wrapped(arch))
        => \A i \in 1..Len(arch) :
              LET c == arch[i].comps IN
              Tail(c) # Root
                => /\ tree[Tail(c)] = arch[i].data
                   /\ c \notin StrippedTargets(arch) => tree[c] = tree0[c]


\* C24: a task of old_updater 1.1 that has committed modmanager.exe and
\* launched it ends with the exit of the updater process
C24_CommitEndsInExit ==
    (rep.fn = "task" /\ rep.res = "committed" /\ upResult = "done") ~> ~updRunning


\* the files of the installation, as opposed to the temporary directory
Installed == Files \ {"tmp_mm", "tmp_upd"}

C26_TaskReportsStatus ==
    (upPc = "v11_download") ~> (upResult \in {"done", "failed"})


\* the tag of the release that the check fetched
FetchedTag == TagOf(arg.a, arg.b)

MaxChunks == 2
\* bytes of the longest chunk (a chunk of 0 bytes is an empty read)
MaxChunk == 2

Downloads == {"download_url_to_path", "download_file"}

\* an int, as opposed to None
IntVal(n) == <<"int", n>>

RECURSIVE Total(_)
Total(s) == IF s = <<>> THEN 0 ELSE Head(s) + Total(Tail(s))

\* total as each function computes it from the Content-Length header
TotalOf(fn, chunks, length) ==
    IF length THEN IntVal(Total(chunks))
    ELSE IF fn = "download_file" THEN IntVal(0)   \* int(headers.get(.., 0))
    ELSE None                                  \* int(total) if total ... else None

\* what each function passes as total when it does not know it
Unknown(fn) == IF fn = "download_file" THEN IntVal(0) ELSE None

NoStream ==
    [fn |-> "none", pc |-> "idle", pos |-> 0, total |-> None,
     downloaded |-> 0, written |-> 0, marks |-> <<>>, calls |-> <<>>,
     queue |-> <<>>, ui |-> {}]

\* a widget setter called on a thread
Touch(w, th) == [w |-> w, th |-> th]

\* arg.breakAt: -1 the connection never fails, 0 the request fails,
\* k > 0 the read of chunk k fails
InitDl ==
    /\ MergeIdle
    /\ MainIdle
    /\ arg \in [fn : Downloads, chunks : SeqsUpTo(0..MaxChunk, MaxChunks),
                length : BOOLEAN, breakAt : (-1)..MaxChunks]
    /\ ret = NoStream

\* 1.1 lines 275-281: the GUI thread shows the bar and starts the worker
start_worker ==
    /\ arg.fn = "download_file" /\ ret.pc = "idle"
    /\ ret' = [ret EXCEPT !.pc = "request",
                          !.ui = @ \cup {Touch("progress_bar", "gui")}]
    /\ UNCHANGED <<arg, pureFrame>>

\* 1.1 lines 175-181 and 308-326: the except of WorkerThread.run emits finished
DlFailed(r) ==
    IF arg.fn = "download_file"
    THEN [r EXCEPT !.pc = "failed", !.queue = Append(@, "finished")]
    ELSE [r EXCEPT !.pc = "failed"]

\* the request: urlopen (modmanager.py 142-147) or requests.get and
\* raise_for_status (1.1 61-65); in 1.1 the worker emits "Starting..." and
\* "Downloading ..." before it
DlRequest ==
    /\ \/ arg.fn = "download_url_to_path" /\ ret.pc = "idle"
       \/ arg.fn = "download_file" /\ ret.pc = "request"
    /\ LET r == IF arg.fn = "download_file"
                THEN [ret EXCEPT !.queue = @ \o <<"progress", "progress">>]
                ELSE ret
       IN  ret' = IF arg.breakAt = 0 THEN DlFailed(r)
                  ELSE [r EXCEPT !.pc = "loop",
                                 !.total = TotalOf(arg.fn, arg.chunks, arg.length)]
    /\ UNCHANGED <<arg, pureFrame>>

\* 1.1 lines 320-324: cb sets the progress bar, on the thread that calls it
cb(r) ==
    IF r.total # IntVal(0)
    THEN [r EXCEPT !.ui = @ \cup {Touch("progress_bar", "worker")}]
    ELSE r

\* the callback is given the size of the chunk instead of the running count
DlChunk_ReportingChunk ==
    /\ ret.pc = "loop" /\ ret.pos < Len(arg.chunks) /\ arg.breakAt # ret.pos + 1
    /\ LET chunk == arg.chunks[ret.pos + 1]
           read == [ret EXCEPT !.pos = @ + 1]
           wr == [read EXCEPT !.written = @ + chunk, !.downloaded = @ + chunk,
                              !.marks = Append(@, ret.written + chunk),
                              !.calls = Append(@, [n |-> chunk, total |-> ret.total])]
       IN  ret' = IF chunk = 0
                  THEN IF arg.fn = "download_url_to_path"
                       THEN [read EXCEPT !.pc = "done"]
                       ELSE read
                  ELSE IF arg.fn = "download_file" THEN cb(wr) ELSE wr
    /\ UNCHANGED <<arg, pureFrame>>

\* one round of the loop: read a chunk, write it, count it, call back
\* (modmanager.py 150-160, 1.1 67-71); an empty read ends the loop of
\* download_url_to_path and is skipped by download_file
DlChunk ==
    /\ ret.pc = "loop" /\ ret.pos < Len(arg.chunks) /\ arg.breakAt # ret.pos + 1
    /\ LET chunk == arg.chunks[ret.pos + 1]
           read == [ret EXCEPT !.pos = @ + 1]
           wr == [read EXCEPT !.written = @ + chunk, !.downloaded = @ + chunk,
                              !.marks = Append(@, ret.written + chunk),
                              !.calls = Append(@, [n |-> ret.downloaded + chunk,
                                                   total |-> ret.total])]
       IN  ret' = IF chunk = 0
                  THEN IF arg.fn = "download_url_to_path"
                       THEN [read EXCEPT !.pc = "done"]
                       ELSE read
                  ELSE IF arg.fn = "download_file" THEN cb(wr) ELSE wr
    /\ UNCHANGED <<arg, pureFrame>>

\* the body is exhausted: return True / return dest_path
DlEnd ==
    /\ ret.pc = "loop" /\ ret.pos = Len(arg.chunks) /\ arg.breakAt # ret.pos + 1
    /\ ret' = [ret EXCEPT !.pc = "done"]
    /\ UNCHANGED <<arg, pureFrame>>

\* a read raises: return False (modmanager.py 162-164) / the exception
\* leaves download_file
DlBroken ==
    /\ ret.pc = "loop" /\ arg.breakAt = ret.pos + 1
    /\ ret' = DlFailed(ret)
    /\ UNCHANGED <<arg, pureFrame>>

\* 1.1 lines 283-294: the GUI thread runs the slot of the next queued signal
on_signal ==
    /\ ret.queue # <<>>
    /\ ret' = [ret EXCEPT
                 !.queue = Tail(@),
                 !.ui = @ \cup (IF Head(ret.queue) = "progress"
                                THEN {Touch("log_label", "gui")}
                                ELSE {Touch("progress_bar", "gui"),
                                      Touch("status_label", "gui")})]
    /\ UNCHANGED <<arg, pureFrame>>

NextDl == start_worker \/ DlRequest \/ DlChunk \/ DlEnd \/ DlBroken \/ on_signal

SpecDl == InitDl /\ [][NextDl]_vars

\* the downloading thread and the GUI event loop keep running
SpecDlLive ==
    InitDl /\ [][NextDl]_vars
      /\ WF_vars(start_worker) /\ WF_vars(DlRequest) /\ WF_vars(DlChunk)
      /\ WF_vars(DlEnd) /\ WF_vars(DlBroken) /\ WF_vars(on_signal)

\* C28: every widget setter is called on the GUI thread
C28_WidgetsOnGuiThread == \A t \in ret.ui : t.th = "gui"

\* the callbacks so far: one per chunk written, each with the bytes written
\* when it was made, never decreasing, and with the unknown total when the
\* response has no Content-Length
ProgressSoFar ==
    /\ Len(ret.calls) = Len(ret.marks)
    /\ \A i \in 1..Len(ret.calls) : ret.calls[i].n = ret.marks[i]
    /\ \A i \in 1..Len(ret.calls) : \A j \in i..Len(ret.calls) :
           ret.calls[i].n <= ret.calls[j].n
    /\ ret.calls # <<>> => ret.calls[Len(ret.calls)].n = ret.written
    /\ ~arg.length => \A i \in 1..Len(ret.calls) : ret.calls[i].total = Unknown(arg.fn)

\* C29: within one download the callback is invoked once after every chunk
\* written, with non-decreasing byte counts that equal the bytes written so
\* far, the total is the unknown value when Content-Length is absent, and
\* the download ends in completion or failure
C29_ProgressPerChunk == []ProgressSoFar /\ <>(ret.pc \in {"done", "failed"})

\* two chunks were written and reported without a Content-Length, and the
\* download completed
C29_Witness ==
    /\ ret.pc = "done" /\ ~arg.length /\ arg.chunks = <<2, 1>>
    /\ ret.calls = <<[n |-> 2, total |-> Unknown(arg.fn)],
                     [n |-> 3, total |-> Unknown(arg.fn)]>>
    /\ ret.written = 3


\* C30: whatever happens to the termination request of update.py run (the
\* kill command is missing, fails or ends non-zero), the run is not aborted:
\* its next step is the check for update_new.exe
C30_KillFailureNotFatal ==
    [][(upPc = "close") => (upPc' = "chk_upd" /\ upResult' # "failed")]_vars


\* C31: the script moves the staged file onto the destination only when a
\* deletion has left no file at the destination, it does so once, and when
\* it has completed the script file no longer exists
C31_OneSwapThenSelfDelete ==
    [][/\ (watcher = "move" /\ watcher' # "move")
            => (~exists(fs, "upd") /\ watcher' = "unlink")
       /\ (watcher = "unlink" => watcher' \in {"unlink", "done"})
       /\ (watcher = "done" => watcher' = "done")
       /\ (watcher' = "done" => ~exists(fs', "script"))]_vars

\* the script has swapped update.exe and is gone
C31_Witness ==
    /\ watcher = "done" /\ ~exists(fs, "script")
    /\ exists(fs, "upd") /\ fs["upd"].ver = "new" /\ ~exists(fs, "upd.new")


\* a complete Mod-Manager binary is at modmanager.exe or at its backup
HaveBinary == Complete(fs["mm"]) \/ Complete(fs["mm_old"])

\* update.py between two runs with both modmanager.exe and the backup in
\* place: the rename of lines 155-157 of the next run raises
RerunBlocked ==
    upPc = "idle" /\ upResult = "failed" /\ exists(fs, "mm") /\ exists(fs, "mm_old")

\* C32: across the runs of update.py, failed and repeated ones included, a
\* complete Mod-Manager binary exists at modmanager.exe or at the backup,
\* and no failed run leaves the files so that the next run cannot pass the
\* backup step
C32_BinaryKeptAcrossRuns == HaveBinary /\ ~RerunBlocked


\* ------------------------------------------------------------------------
\* The shared release fields of old_updater 1.1 (SpecRel)
\*   UpdaterGUI.latest_release / UpdaterGUI.assets are written by every
\*   task that fetches the release and read by the asset lookups.  The
\*   buttons stay enabled while a worker runs, so start_worker can start a
\*   second WorkerThread; the first keeps running (its run() holds it)
\* ------------------------------------------------------------------------
\* worker threads the user starts
MaxWorkers == 2
\* releases published while the updater is open
MaxReleases == 2

Workers == 1..MaxWorkers
Tasks == {"task_check_latest", "task_update_exe"}

NoWorker == [pc |-> "off", task |-> "none", fetched |-> 0, picked |-> {}]

\* an asset taken from the assets of a release
Pick(name, release) == [name |-> name, release |-> release]

InitRel ==
    /\ MergeIdle
    /\ MainIdle
    /\ arg = NoArg
    /\ ret = [fn |-> "none", server |-> 1, assets |-> 0,
              th |-> [w \in Workers |-> NoWorker]]

\* a new release becomes the latest one on the server
Publish ==
    /\ ret.server < MaxReleases
    /\ ret' = [ret EXCEPT !.server = @ + 1]
    /\ UNCHANGED <<arg, pureFrame>>

\* lines 262-281: a button starts a worker with the task
on_click(w) ==
    /\ ret.th[w].pc = "off"
    /\ \A v \in Workers : v < w => ret.th[v].pc # "off"
    /\ \E task \in Tasks :
         ret' = [ret EXCEPT !.th[w] = [NoWorker EXCEPT !.pc = "fetch", !.task = task]]
    /\ UNCHANGED <<arg, pureFrame>>

\* lines 298-306 and 406-408: get_latest_release_info, then
\* self.latest_release = info and self.assets = info["assets"]
FetchRelease(w) ==
    /\ ret.th[w].pc = "fetch"
    /\ ret' = [ret EXCEPT !.assets = ret.server,
                          !.th[w].fetched = ret.server,
                          !.th[w].pc = IF ret.th[w].task = "task_update_exe"
                                       THEN "download_mod" ELSE "done"]
    /\ UNCHANGED <<arg, pureFrame>>

\* lines 314-325 (and 446 for update.exe): find_asset_by_name(self.assets,
\* name) reads the field when the download starts
DownloadAsset(w, name, next) ==
    /\ ret.th[w].pc = next[1]
    /\ ret' = [ret EXCEPT !.th[w].picked = @ \cup {Pick(name, ret.assets)},
                          !.th[w].pc = next[2]]
    /\ UNCHANGED <<arg, pureFrame>>

\* line 412: the download of modmanager.exe
DownloadMod(w) == DownloadAsset(w, "modmanager.exe", <<"download_mod", "download_upd">>)

\* lines 446-450: the lookup and download of update.exe
DownloadUpd(w) == DownloadAsset(w, "update.exe", <<"download_upd", "done">>)

NextRel ==
    \/ Publish
    \/ \E w \in Workers : on_click(w)
    \/ \E w \in Workers : FetchRelease(w)
    \/ \E w \in Workers : DownloadMod(w)
    \/ \E w \in Workers : DownloadUpd(w)

SpecRel == InitRel /\ [][NextRel]_vars

\* C33: every asset a workflow downloads is taken from the release that this
\* workflow fetched when it started
C33_AssetsFromOwnRelease ==
    \A w \in Workers : \A a \in ret.th[w].picked : a.release = ret.th[w].fetched


\* ------------------------------------------------------------------------
\* old_updater 1.0: main (SpecV10)
\*   "mm" is modmanager.exe (old_exe), "mm.new" is modmanager_new.exe
\*   (new_exe); update.exe is started by hand or by an older Mod-Manager,
\*   whether or not a download has left modmanager_new.exe
\* ------------------------------------------------------------------------
v10Frame == <<dl, ghostVars, mmVars, v11Vars, mergeVars, callVars>>

\* lines 30-38: os.rename(filepath, filepath) raises for a file that another
\* program holds open; the image of a running process can be renamed on
\* some systems and not on others
is_file_locked(f, p) ==
    IF ~exists(f, p) \/ ~Locked(f, p) THEN {FALSE}
    ELSE IF f[p].lk = "mm" THEN {TRUE, FALSE}
    ELSE {TRUE}

InitV10 ==
    /\ MergeIdle
    /\ CallIdle
    /\ V11Idle
    /\ \E holder \in {"", "mm", "upd2"}, staged \in {NoFile} \cup {File("new", n, "") : n \in 0..Size} :
         /\ mmRunning = (holder = "mm")
         /\ fs = [p \in Files |->
                    IF p = "mm" THEN File("old", Size, holder)
                    ELSE IF p = "mm.new" THEN staged
                    ELSE NoFile]
    /\ updRunning = FALSE
    /\ upPc = "off" /\ upResult = "none" /\ dl = NoDl /\ runs = 0
    /\ trusted = {} /\ wrote = {} /\ leftover = {}
    /\ mmBin = "old"
    /\ settingsFile = NoSettingsFile
    /\ settings = [version |-> SCRIPT_VERSION, last_release_tag |-> None]
    /\ saves = 0
    /\ workers = NoThreads
    /\ timerQ = <<>>
    /\ status = InitialStatus

\* update.exe is started
V10_Start ==
    /\ upPc = "off" /\ runs < MaxRuns
    /\ runs' = runs + 1
    /\ updRunning' = TRUE
    /\ upPc' = "v10_wait"
    /\ upResult' = "none"
    /\ UNCHANGED <<fs, mmRunning, v10Frame>>

\* the process ends
V10_Exit(result) ==
    /\ upPc' = "off"
    /\ upResult' = result
    /\ updRunning' = FALSE

\* the user closes Mod-Manager, or the other program lets go of the file
V10_Released ==
    /\ upPc # "off" /\ Locked(fs, "mm")
    /\ fs' = [fs EXCEPT !["mm"].lk = ""]
    /\ mmRunning' = FALSE
    /\ UNCHANGED <<updRunning, upPc, upResult, runs, v10Frame>>

\* lines 12-14: while old_exe exists and is seen as locked, sleep 0.5 s
V10_Sleep ==
    /\ upPc = "v10_wait"
    /\ TRUE \in is_file_locked(fs, "mm")
    /\ upPc' = "v10_sleep"
    /\ UNCHANGED <<fs, mmRunning, updRunning, upResult, runs, v10Frame>>

V10_Wake ==
    /\ upPc = "v10_sleep"
    /\ upPc' = "v10_wait"
    /\ UNCHANGED <<fs, mmRunning, updRunning, upResult, runs, v10Frame>>

\* lines 12-14: the loop ends when old_exe is missing or not seen as locked
V10_Wait ==
    /\ upPc = "v10_wait"
    /\ FALSE \in is_file_locked(fs, "mm")
    /\ upPc' = "v10_remove"
    /\ UNCHANGED <<fs, mmRunning, updRunning, upResult, runs, v10Frame>>

\* lines 16-18 and 21-24: os.remove(old_exe) if it exists
V10_Remove ==
    /\ upPc = "v10_remove"
    /\ IF ~exists(fs, "mm")
       THEN /\ upPc' = "v10_move"
            /\ UNCHANGED <<fs, updRunning, upResult>>
       ELSE \E broken \in BOOLEAN :
              LET r == remove_file(fs, "mm", broken) IN
              IF r.ok THEN /\ fs' = r.f
                           /\ upPc' = "v10_move"
                           /\ UNCHANGED <<updRunning, upResult>>
              ELSE /\ V10_Exit("exit1")
                   /\ UNCHANGED fs
    /\ UNCHANGED <<mmRunning, runs, v10Frame>>

\* lines 19-24: shutil.move(new_exe, old_exe) if new_exe exists
V10_Move ==
    /\ upPc = "v10_move"
    /\ IF ~exists(fs, "mm.new")
       THEN /\ upPc' = "v10_launch"
            /\ UNCHANGED <<fs, updRunning, upResult>>
       ELSE \E fault \in {"none", "rename"} :
              LET r == shutil_move(fs, "mm.new", "mm", fault) IN
              IF r.ok THEN /\ fs' = r.f
                           /\ upPc' = "v10_launch"
                           /\ UNCHANGED <<updRunning, upResult>>
              ELSE /\ V10_Exit("exit1")
                   /\ fs' = r.f
    /\ UNCHANGED <<mmRunning, runs, v10Frame>>

\* lines 26-28: subprocess.Popen([old_exe]) outside the try, then sys.exit(0)
V10_Launch ==
    /\ upPc = "v10_launch"
    /\ \E outcome \in PopenOutcomes(fs["mm"]) :
         \/ /\ outcome = "raise"
            /\ V10_Exit("traceback")
            /\ UNCHANGED <<fs, mmRunning>>
         \/ /\ outcome = "started" /\ ~mmRunning
            /\ mmRunning' = TRUE
            /\ fs' = Hold(fs, "mm", "mm")
            /\ V10_Exit("exit0")
         \/ /\ \/ outcome = "died"
               \/ outcome = "started" /\ mmRunning
            /\ V10_Exit("exit0")
            /\ UNCHANGED <<fs, mmRunning>>
    /\ UNCHANGED <<runs, v10Frame>>

NextV10 == V10_Start \/ V10_Released \/ V10_Sleep \/ V10_Wake \/ V10_Wait \/ V10_Remove \/ V10_Move \/ V10_Launch

SpecV10 == InitV10 /\ [][NextV10]_vars

\* C34: main removes modmanager.exe only when modmanager_new.exe exists, and
\* when it has ended modmanager.exe exists
C34_DestinationSurvivesSwap ==
    [][/\ (exists(fs, "mm") /\ ~exists(fs', "mm")) => exists(fs, "mm.new")
       /\ (runs = 1 /\ upPc # "off" /\ upPc' = "off") => exists(fs', "mm")]_vars


\* ------------------------------------------------------------------------
\* Where a member of the archive is written (SpecPath)
\*   a member name is the sequence of its components between "/", an empty
\*   first component standing for a leading "/"; paths are sequences of
\*   components from the root of the drive; the destination is /dest
\* ------------------------------------------------------------------------
\* components of the longest member name
MaxDepth == 3

PathNames == {"", "..", "resources", "a"}
MemberNames == SeqsUpTo(PathNames, MaxDepth) \ {<<>>}
DestFolder == <<"dest">>

\* os.path.normpath of an absolute path given by its components
RECURSIVE normpath(_, _)
normpath(comps, acc) ==
    IF comps = <<>> THEN acc
    ELSE LET c == Head(comps) IN
         IF c = "" THEN normpath(Tail(comps), acc)
         ELSE IF c = ".."
         THEN normpath(Tail(comps), IF acc = <<>> THEN acc ELSE Parent(acc))
         ELSE normpath(Tail(comps), Append(acc, c))

\* update.py lines 93-96: member.split(os.sep), the wrapper test, and
\* os.path.join(dest_folder, *parts).  With os.sep "\\" the name is one
\* part, which join appends to dest_folder or, if it begins with "/",
\* to the root of the drive; with os.sep "/" the parts are the components
merge_target_path(member, s) ==
    IF s = "\\"
    THEN IF member = <<"resources">> THEN DestFolder
         ELSE IF member[1] = "" THEN normpath(member, <<>>)
         ELSE normpath(DestFolder \o member, <<>>)
    ELSE LET parts == IF Lower(member[1]) = "resources" THEN Tail(member) ELSE member
         IN  normpath(DestFolder \o parts, <<>>)

\* old_updater 1.1 lines 80-89: extractall drops the empty and ".."
\* components of a member name, and the walk copies every extracted file to
\* the same relative path under dest_folder
extract_target_path(member) ==
    DestFolder \o SelectSeq(member, LAMBDA c : c \notin {"", ".."})

InitPath ==
    /\ MergeIdle
    /\ MainIdle
    /\ arg \in [a : MemberNames, b : {"/", "\\"}]
    /\ ret = NoRet

CallMergeTargetPath ==
    /\ ret.fn = "none"
    /\ ret' = [fn |-> "unzip_and_merge", val |-> merge_target_path(arg.a, arg.b)]
    /\ UNCHANGED <<arg, pureFrame>>

CallExtractTargetPath ==
    /\ ret.fn = "none"
    /\ ret' = [fn |-> "unzip_to", val |-> extract_target_path(arg.a)]
    /\ UNCHANGED <<arg, pureFrame>>

NextPath == CallMergeTargetPath \/ CallExtractTargetPath

SpecPath == InitPath /\ [][NextPath]_vars

\* C35: whatever the name of a member, ".." components and a leading "/"
\* included, the path it is written to lies under the destination directory
C35_WritesStayUnderDest == ret.fn # "none" => IsPrefix(DestFolder, ret.val)


\* the same bytes, whoever holds the file
SameData(x, y) == x.ver = y.ver /\ x.len = y.len

\* C36: a swap of update_installer_exe that starts with an update.exe either
\* leaves update.exe with its content, or leaves it with the content of
\* update_new.exe and no update_new.exe; update.exe is never absent after it
C36_SwapAllOrNothing ==
    [][(exists(fs, "upd") /\ exists(fs, "upd_new") /\ ~SameData(fs'["upd"], fs["upd"]))
          => (SameData(fs'["upd"], fs["upd_new"]) /\ ~exists(fs', "upd_new"))]_vars


\* C37: Mod-Manager quits only in a step in which Popen has started an
\* updater process: the updater is running afterwards, or it was started
\* and ended at once; when no executable is obtained or Popen raises,
\* Mod-Manager keeps running
C37_QuitOnlyAfterSpawn ==
    [][(mmRunning /\ ~mmRunning')
          => \/ ~updRunning /\ updRunning'
             \/ upResult = "none" /\ upResult' = "crashed"]_vars

\* the downloaded update_new.exe runs and Mod-Manager has quit
C37_Witness ==
    /\ ~mmRunning /\ updRunning
    /\ ~exists(fs, "upd")
    /\ fs["upd_new"] = File("new", Size, "upd")


\* C38: when a task of old_updater 1.1 has ended, by returning, by raising
\* or by the exit of the process on the deferred path, the files of its
\* temporary directory are gone
C38_TempDirRemoved ==
    (upPc \in {"v11_idle", "off"} /\ upResult # "none")
        => (~exists(fs, "tmp_mm") /\ ~exists(fs, "tmp_upd"))


\* C39: is_version_newer is a strict order on version strings: no string is
\* newer than itself, and of two strings not each is newer than the other
C39_StrictOrder ==
    (ret.fn = "is_version_newer" /\ arg.a # None /\ arg.b # None)
        => /\ arg.a = arg.b => ~ret.val
           /\ ret.val => ~is_version_newer(arg.b, arg.a)

====
